---- MODULE Spec2Model ----
(***************************************************************************)
(* Model of the PostgreSQL testcontainer orchestration layer               *)
(* (postgres.go): the provisioning sequence of StartPostgreSQLContainer    *)
(* and the entry points layered on it, its rollback on every failure       *)
(* path, and the teardown performed by PostgreSQLTestContainer.Close.      *)
(*                                                                         *)
(* The container runtime, the connection pool and the migration engine     *)
(* are collaborators: every call to one of them is one step whose outcome  *)
(* is chosen by the environment.  A call that takes the caller's context   *)
(* fails when that context is already cancelled.                           *)
(***************************************************************************)
EXTENDS Integers, Sequences, FiniteSets, TLC

\* Number of Close calls made on one returned handle.
MaxCloses == 2

----------------------------------------------------------------------------
\* Error values.  An error is described by
\*   is   : the targets errors.Is reports for it (its %w chain),
\*   text : the format string or sentinel that produced it,
\*   msg  : which of the substrings the code looks for occur in Error().

ErrDockerNotAvailable == "ErrDockerNotAvailable"

ErrContainerStartTimeout == "ErrContainerStartTimeout"

ErrContainerPortConflict == "ErrContainerPortConflict"

ErrDatabaseConnFailed == "ErrDatabaseConnFailed"

ErrMigrationsFailed == "ErrMigrationsFailed"

Sentinels ==
    { ErrDockerNotAvailable, ErrContainerStartTimeout, ErrContainerPortConflict,
      ErrDatabaseConnFailed, ErrMigrationsFailed }

Keywords == { "timeout", "port", "already in use" }

\* The substrings of interest contained in a sentinel's own message.
SentinelMsg(s) ==
    CASE s = ErrContainerStartTimeout -> { "timeout" }
      [] s = ErrContainerPortConflict -> { "port" }
      [] OTHER -> {}

\* The substrings of interest contained in a format prefix.
PrefixMsg(prefix) ==
    IF prefix = "failed to get container port: %w" THEN { "port" } ELSE {}

NoError == [ is |-> {}, text |-> "nil", msg |-> {} ]

\* An error returned by a collaborator: a context-cancellation error when the
\* context was cancelled, some other cause otherwise.  m is what its message
\* contains.
CollaboratorError(cancelled, m) ==
    [ is   |-> IF cancelled THEN { "context.Canceled" } ELSE { "cause" },
      text |-> "collaborator",
      msg  |-> m ]

\* fmt.Errorf("%w: %v", sentinel, err): only the sentinel is wrapped, the
\* cause is formatted into the message.
ErrorfSentinel(sentinel, err) ==
    [ is |-> { sentinel }, text |-> sentinel, msg |-> SentinelMsg(sentinel) \cup err.msg ]

\* fmt.Errorf(prefix + ": %w", err): the cause stays reachable by unwrapping.
ErrorfWrap(prefix, err) ==
    [ is |-> err.is, text |-> prefix, msg |-> PrefixMsg(prefix) \cup err.msg ]

\* errors.Is(err, target)
ErrorsIs(err, target) == target \in err.is

\* strings.Contains(err.Error(), kw)
Contains(err, kw) == kw \in err.msg

----------------------------------------------------------------------------
\* Configuration.  Durations are in seconds.  A path is the sequence of its
\* components; an absolute path starts with the component "/".

NilConfig == [ nil |-> TRUE ]

DefaultPostgreSQLConfig ==
    [ DatabaseName      |-> "testdb",
      Username          |-> "testuser",
      Password          |-> "testpass",
      PostgreSQLVersion |-> "16-3.4",
      MaxConns          |-> 10,
      MinConns          |-> 2,
      MaxConnLife       |-> 30 * 60,
      MaxConnIdle       |-> 5 * 60,
      StartupTimeout    |-> 30,
      RunMigrations     |-> FALSE,
      MigrationsPath    |-> <<>> ]

MigrationPaths == { <<>>, <<"migrations">>, <<"/", "custom", "migrations">> }

CustomConfig(run, path) ==
    [ DatabaseName      |-> "customdb",
      Username          |-> "customuser",
      Password          |-> "custompass",
      PostgreSQLVersion |-> "15-3.3",
      MaxConns          |-> 20,
      MinConns          |-> 5,
      MaxConnLife       |-> 60 * 60,
      MaxConnIdle       |-> 10 * 60,
      StartupTimeout    |-> 60,
      RunMigrations     |-> run,
      MigrationsPath    |-> path ]

\* A configuration whose database name is not all lower case.
MixedCaseConfig == [ CustomConfig(FALSE, <<>>) EXCEPT !.DatabaseName = "TestDB" ]

Configs ==
    { NilConfig, DefaultPostgreSQLConfig, MixedCaseConfig }
        \cup { CustomConfig(r, p) : r \in BOOLEAN, p \in MigrationPaths }

WorkingDir == <<"/", "work">>

\* filepath.IsAbs
IsAbs(p) == Len(p) > 0 /\ p[1] = "/"

\* filepath.Abs on a relative path
Abs(p) == WorkingDir \o p

----------------------------------------------------------------------------
\* Paths and the file system.  A path is the sequence of its components, "/"
\* first when it is absolute.

\* filepath.Clean: "." components are dropped and ".." removes the component
\* before it; the root has no parent.
RECURSIVE CleanInto(_, _)
CleanInto(done, rest) ==
    IF rest = <<>> THEN done
    ELSE IF rest[1] = "." THEN CleanInto(done, Tail(rest))
    ELSE IF rest[1] = ".." /\ done = << "/" >> THEN CleanInto(done, Tail(rest))
    ELSE IF rest[1] = ".." /\ done # <<>> /\ done[Len(done)] # ".."
      THEN CleanInto(SubSeq(done, 1, Len(done) - 1), Tail(rest))
    ELSE CleanInto(Append(done, rest[1]), Tail(rest))

Clean(p) == IF CleanInto(<<>>, p) = <<>> THEN << "." >> ELSE CleanInto(<<>>, p)

\* filepath.Join
Join(dir, rel) == Clean(dir \o rel)

\* filepath.Dir
Dir(p) ==
    IF Len(Clean(p)) <= 1
      THEN IF IsAbs(p) THEN << "/" >> ELSE << "." >>
      ELSE SubSeq(Clean(p), 1, Len(Clean(p)) - 1)

\* filepath.Abs: an absolute path is cleaned, a relative one is joined to the
\* working directory, which fails when that cannot be determined.
FilepathAbs(p, wdOk) ==
    IF IsAbs(p) THEN [ ok |-> TRUE, path |-> Clean(p) ]
    ELSE IF wdOk THEN [ ok |-> TRUE, path |-> Join(WorkingDir, p) ]
    ELSE [ ok |-> FALSE, path |-> <<>> ]

\* The paths FindMigrationsPath may look at, and what each can be.
FsPaths ==
    { << "/", "repo", ".git" >>,
      << "/", "repo", "pkg", ".git" >>,
      << "/", "repo", "database", "migrations" >>,
      << "/", "repo", "migrations" >>,
      << "/", "repo", "sql", "migrations" >>,
      << "/", "repo", "db", "migrations" >>,
      << "/", "repo", "pkg", "migrations" >>,
      << "/", "tmp", "mig" >>,
      << "/", "work", "mig" >>,
      << "/", "work", ".git" >>,
      << "/", "work", "migrations" >> }

\* The paths that may also be regular files.
FilePaths ==
    { << "/", "repo", ".git" >>,
      << "/", "repo", "database", "migrations" >>,
      << "/", "tmp", "mig" >> }

FileSystems ==
    { f \in [ FsPaths -> { "absent", "dir", "file" } ] :
        \A q \in FsPaths : f[q] = "file" => q \in FilePaths }

NoFiles == [ q \in FsPaths |-> "absent" ]

\* The file a path designates: a relative path is taken from the working
\* directory.
Located(q) == IF IsAbs(q) THEN q ELSE Join(WorkingDir, q)

\* os.Stat(p) succeeds and IsDir()
IsDir(f, q) == Located(q) \in DOMAIN f /\ f[Located(q)] = "dir"

\* The values of MIGRATIONS_PATH: unset or empty, absolute, not clean,
\* relative, and a path nothing exists at.
EnvValues ==
    { <<>>,
      << "/", "tmp", "mig" >>,
      << "/", "tmp", "x", "..", "mig" >>,
      << "mig" >>,
      << "/", "nowhere" >> }

\* The file of a test that uses the library: in a package directory of a
\* repository, at its top, or, in a build that records no file system
\* paths, a name that starts with the module path.
UserFiles ==
    { << "/", "repo", "pkg", "x_test.go" >>,
      << "/", "repo", "x_test.go" >>,
      << "example.com", "m", "x_test.go" >> }

\* The file of the test runner of the Go installation, which calls every
\* test function, as the build of the test file u records it.
RunnerFile(u) ==
    IF IsAbs(u) THEN << "/", "goroot", "src", "testing", "testing.go" >>
    ELSE << "testing", "testing.go" >>

\* A file of the user's with a helper function the test calls.
HelperFile(u) == Append(Dir(u), "helpers.go")

\* The frames of the code that calls the library, innermost first: the test
\* function under the test runner, or a helper function the test calls.
UserStacks ==
    { << u, RunnerFile(u) >> : u \in UserFiles }
      \cup { << HelperFile(u), u, RunnerFile(u) >> : u \in UserFiles }

\* The library's source file, in the module cache of a program that depends
\* on it.
LibraryFile == << "/", "gomod", "lib", "postgres.go" >>

\* No file: runtime.Caller has not been called.
NoFile == <<>>

\* runtime.Caller(skip) inside a function whose stack is the given one, the
\* function itself first: the file of the frame skip levels up, or no name
\* when the stack is not that deep.
RuntimeCaller(stack, skip) ==
    IF skip + 1 \in DOMAIN stack THEN stack[skip + 1] ELSE << "" >>

\* The stack of a call of FindMigrationsPath made by the user's code.
DirectStack(src) == << src.lib >> \o src.user

\* The library's functions between the user's code and
\* StartPostgreSQLContainer, innermost first.
EntryFrames(e) ==
    IF e = "StartPostgreSQLContainer" THEN <<>>
    ELSE IF e = "StartPostgreSQLContainerWithCheck" THEN << "StartPostgreSQLContainerWithCheck" >>
    ELSE << "StartPostgreSQLContainerWithCheck", e >>

\* The stack of the call of FindMigrationsPath made by runMigrations when
\* the entry point e was called: FindMigrationsPath, runMigrations,
\* StartPostgreSQLContainer and the entry points above it are all in the
\* library's file.
ProvisioningStack(src, e) ==
    [ i \in 1..(3 + Len(EntryFrames(e))) |-> src.lib ] \o src.user

\* The conventional locations, in the order they are tried.
ConventionalPaths ==
    << << "database", "migrations" >>, << "migrations" >>,
       << "sql", "migrations" >>, << "db", "migrations" >> >>

\* The literal returned when nothing is found.
FallbackPath == << "database", "migrations" >>

\* Variant of FirstConventional: whatever exists at a conventional location
\* is taken, directory or not.
FirstConventionalExisting(f, root, i) ==
    LET hits == { k \in DOMAIN ConventionalPaths :
                    /\ Located(Join(root, ConventionalPaths[k])) \in DOMAIN f
                    /\ f[Located(Join(root, ConventionalPaths[k]))] # "absent" }
    IN  IF hits = {} THEN FallbackPath
        ELSE Join(root, ConventionalPaths[CHOOSE k \in hits : \A m \in hits : k <= m])

\* The inner loop: the first conventional location under root that is a
\* directory, from position i on.
RECURSIVE FirstConventional(_, _, _)
FirstConventional(f, root, i) ==
    IF i > Len(ConventionalPaths) THEN FallbackPath
    ELSE IF IsDir(f, Join(root, ConventionalPaths[i])) THEN Join(root, ConventionalPaths[i])
    ELSE FirstConventional(f, root, i + 1)

\* The outer loop: up from dir to the first directory holding a .git
\* directory, or to the root of the file system.
RECURSIVE WalkUp(_, _)
WalkUp(f, dir) ==
    IF IsDir(f, Join(dir, << ".git" >>)) THEN FirstConventional(f, dir, 1)
    ELSE IF Dir(dir) = dir THEN FallbackPath
    ELSE WalkUp(f, Dir(dir))

\* Variant of FindMigrationsPath: a value naming a directory is returned as
\* it was given.
FindMigrationsPathAsGiven(e, f, file, wdOk) ==
    IF e # <<>> /\ FilepathAbs(e, wdOk).ok /\ IsDir(f, FilepathAbs(e, wdOk).path)
      THEN [ path |-> e, printed |-> <<>> ]
      ELSE [ path |-> WalkUp(f, Dir(file)), printed |-> <<>> ]

\* Variant of FindMigrationsPath: an invalid value ends the search.
FindMigrationsPathNoSearch(e, f, file, wdOk) ==
    IF e # <<>> /\ FilepathAbs(e, wdOk).ok /\ IsDir(f, FilepathAbs(e, wdOk).path)
      THEN [ path |-> FilepathAbs(e, wdOk).path, printed |-> <<>> ]
      ELSE [ path    |-> IF e # <<>> THEN FallbackPath ELSE WalkUp(f, Dir(file)),
             printed |-> <<>> ]

\* FindMigrationsPath for the environment value e, the file system f, the
\* caller's file and the state of the working directory: the path returned
\* and what is printed.
FindMigrationsPath(e, f, file, wdOk) ==
    IF e # <<>> /\ FilepathAbs(e, wdOk).ok /\ IsDir(f, FilepathAbs(e, wdOk).path)
      THEN [ path |-> FilepathAbs(e, wdOk).path, printed |-> <<>> ]
      ELSE [ path    |-> WalkUp(f, Dir(file)),
             printed |-> IF e # <<>>
                           THEN << [ text |-> "Warning: MIGRATIONS_PATH set but invalid: %s",
                                     err  |-> e ] >>
                           ELSE <<>> ]

----------------------------------------------------------------------------
\* Handles and results.

NilHandle == [ nil |-> TRUE ]

NoResult == [ none |-> TRUE ]

\* fmt.Sprintf("postgres://%s:%s@%s:%s/%s?sslmode=disable", ...)
DatabaseURLOf(user, password, h, p, db) ==
    << "postgres://", user, ":", password, "@", h, ":", p, "/", db, "?sslmode=disable" >>

EntryPoints ==
    { "StartPostgreSQLContainer", "StartPostgreSQLContainerWithCheck",
      "StartSimplePostgreSQLContainer", "StartPostgreSQLContainerWithMigrations" }

----------------------------------------------------------------------------
\* Docker preflight check.

\* Variant of CheckDockerAvailability: the three commands are all run before
\* the result is decided.
CheckDockerAvailabilityAllSteps(lookPath, info, images) ==
    LET all == << "exec.LookPath", "docker info", "docker images" >>
    IN  IF ~lookPath THEN
            [ Available |-> FALSE, Reason |-> "Docker command not found in PATH",
              Error |-> "err", steps |-> all ]
        ELSE IF ~info THEN
            [ Available |-> FALSE, Reason |-> "Docker daemon is not running or accessible",
              Error |-> "err", steps |-> all ]
        ELSE IF ~images THEN
            [ Available |-> FALSE, Reason |-> "Docker is running but images command failed",
              Error |-> "err", steps |-> all ]
        ELSE
            [ Available |-> TRUE, Reason |-> "Docker is available and running",
              Error |-> "nil", steps |-> all ]

\* Variant of CheckDockerAvailability: a failing image listing is tolerated.
CheckDockerAvailabilityLenient(lookPath, info, images) ==
    IF ~lookPath THEN
        [ Available |-> FALSE, Reason |-> "Docker command not found in PATH",
          Error |-> "err", steps |-> << "exec.LookPath" >> ]
    ELSE IF ~info THEN
        [ Available |-> FALSE, Reason |-> "Docker daemon is not running or accessible",
          Error |-> "err", steps |-> << "exec.LookPath", "docker info" >> ]
    ELSE
        [ Available |-> TRUE, Reason |-> "Docker is available and running",
          Error |-> "nil", steps |-> << "exec.LookPath", "docker info", "docker images" >> ]

\* The three diagnostic steps, stopping at the first failure.  steps lists
\* the commands that were run.
CheckDockerAvailability(lookPath, info, images) ==
    IF ~lookPath THEN
        [ Available |-> FALSE, Reason |-> "Docker command not found in PATH",
          Error |-> "err", steps |-> << "exec.LookPath" >> ]
    ELSE IF ~info THEN
        [ Available |-> FALSE, Reason |-> "Docker daemon is not running or accessible",
          Error |-> "err", steps |-> << "exec.LookPath", "docker info" >> ]
    ELSE IF ~images THEN
        [ Available |-> FALSE, Reason |-> "Docker is running but images command failed",
          Error |-> "err", steps |-> << "exec.LookPath", "docker info", "docker images" >> ]
    ELSE
        [ Available |-> TRUE, Reason |-> "Docker is available and running",
          Error |-> "nil", steps |-> << "exec.LookPath", "docker info", "docker images" >> ]

NoDockerStatus == [ none |-> TRUE ]

\* The outcomes of the three diagnostic commands in some environment.
DockerEnv(lookPath, info, images) ==
    [ lookPath |-> lookPath, info |-> info, images |-> images ]

NoDockerEnv == [ none |-> TRUE ]

----------------------------------------------------------------------------
VARIABLES
    pc,             \* position of the caller / of the running call
    entry,          \* the entry point that was called
    arg,            \* the config the entry point was called with
    ctxCancelled,   \* the caller's context has been cancelled
    cancelledAtCall,\* the context was already cancelled when the call was made
    dockerStatus,   \* result of the preflight check
    configIn,       \* the config StartPostgreSQLContainer received
    config,         \* the effective config inside StartPostgreSQLContainer
    runArgs,        \* arguments of postgres.Run
    container,      \* the container: "none", "running" or "terminated"
    host,
    port,
    databaseURL,
    migrationsPath, \* local of runMigrations
    migrator,       \* the migrate instance: "none", "open" or "closed"
    poolConfig,     \* the pool configuration handed to NewWithConfig
    pool,           \* the pool: "none", "open" or "closed"
    pending,        \* the error being returned while the rollback runs
    startResult,    \* what StartPostgreSQLContainer returned
    result,         \* what the entry point returned
    tc,             \* the handle the caller holds
    closes,         \* number of Close calls started
    closeResult,    \* what the last Close returned
    closeVia,       \* how Close was reached: "Close" or "WithCleanup"
    printed,        \* the warnings written to standard output
    db,             \* the tables of the container's database and their rows
    databases,      \* the databases of the container's server
    helper,         \* the helper method being called, or called last
    hArgs,          \* its arguments
    hIdx,           \* position of its loop over the names
    hTables,        \* the table names it has collected
    issued,         \* the operations it has issued so far
    before,         \* the database as it was when the call began
    helperResult,   \* what it returned
    helperVia,      \* how it was reached: "direct" or "WithTableCleanup"
    cleanup,        \* the callable WithTableCleanup returned, if any
    callerTables,   \* the caller's slice of table names, when it passed one
    environ,        \* the value of MIGRATIONS_PATH; empty when unset
    fs,             \* the file system: what each path of interest is
    callerFile,     \* the file name runtime.Caller reported
    sources,        \* where the source files of the frames on the stack are
    getwdOk,        \* the working directory can be determined
    foundPath,      \* what FindMigrationsPath returned
    walk,           \* the directories examined by a call followed step by step
    dockerEnv,      \* what each diagnostic command did at the preflight check
    skipResult,     \* what SkipIfDockerUnavailable returned
    log             \* the collaborator operations invoked, in order

vars ==
    << pc, entry, arg, ctxCancelled, cancelledAtCall, dockerStatus, configIn, config,
       runArgs, container, host, port, databaseURL, migrationsPath, migrator,
       poolConfig, pool, pending, startResult, result, tc, closes, closeResult,
       closeVia, printed, db, databases, helper, hArgs, hIdx, hTables, issued,
       before, helperResult, helperVia, cleanup, callerTables, environ, fs,
       callerFile, sources, getwdOk, foundPath, walk, dockerEnv, skipResult, log >>

callVars == << entry, arg, cancelledAtCall >>

provisionVars ==
    << dockerStatus, configIn, config, runArgs, host, port, databaseURL,
       migrationsPath, migrator, poolConfig >>

returnVars == << startResult, result, tc >>

closeVars == << closes, closeResult, closeVia, printed >>

helperVars ==
    << db, databases, helper, hArgs, hIdx, hTables, issued, before, helperResult >>

wrapperVars == << helperVia, cleanup, callerTables >>

osVars == << environ, fs, callerFile, sources, getwdOk, foundPath, walk, dockerEnv, skipResult >>

\* A server without user tables.
EmptyDatabase == [ rows |-> << >>, fk |-> {} ]

\* No helper method has been called.
\* WithTableCleanup has not been called.
NoCleanup == [ made |-> FALSE ]

HelperIdle ==
    /\ helper = "none"
    /\ hArgs = <<>>
    /\ hIdx = 0
    /\ hTables = <<>>
    /\ issued = <<>>
    /\ before = EmptyDatabase
    /\ helperResult = NoResult
    /\ helperVia = "direct"
    /\ cleanup = NoCleanup
    /\ callerTables = <<>>

\* MIGRATIONS_PATH is unset and FindMigrationsPath has not been called.
NoEnvironment ==
    /\ environ = <<>>
    /\ fs = NoFiles
    /\ callerFile = NoFile
    /\ sources = [ user |-> << << "/", "repo", "pkg", "x_test.go" >>,
                               RunnerFile(<< "/", "repo", "pkg", "x_test.go" >>) >>,
                   lib  |-> LibraryFile ]
    /\ getwdOk = TRUE
    /\ foundPath = <<>>
    /\ walk = <<>>
    /\ dockerEnv = NoDockerEnv
    /\ skipResult = NoResult

\* Nothing has been started.
Idle ==
    /\ db = EmptyDatabase
    /\ databases = {}
    /\ HelperIdle
    /\ pc = "idle"
    /\ entry = "none"
    /\ arg = NilConfig
    /\ ctxCancelled = FALSE
    /\ cancelledAtCall = FALSE
    /\ dockerStatus = NoDockerStatus
    /\ configIn = NilConfig
    /\ config = NilConfig
    /\ runArgs = <<>>
    /\ container = "none"
    /\ host = ""
    /\ port = ""
    /\ databaseURL = <<>>
    /\ migrationsPath = <<>>
    /\ migrator = "none"
    /\ poolConfig = [ none |-> TRUE ]
    /\ pool = "none"
    /\ pending = NoError
    /\ startResult = NoResult
    /\ result = NoResult
    /\ tc = NilHandle
    /\ closes = 0
    /\ closeResult = NoResult
    /\ closeVia = "none"
    /\ printed = <<>>
    /\ log = <<>>

Init == Idle /\ NoEnvironment

\* Outcomes open to a collaborator call that takes the caller's context.
CtxOutcomes == IF ctxCancelled THEN { FALSE } ELSE BOOLEAN

\* The caller cancels its context; this can happen at any moment.
Cancel ==
    /\ ~ctxCancelled
    /\ ctxCancelled' = TRUE
    /\ UNCHANGED << pc, osVars, wrapperVars, helperVars, callVars, provisionVars, container, pool,
                    pending, returnVars, closeVars, log >>

----------------------------------------------------------------------------
\* Entry points.

\* A log entry: the operation, its outcome and the error it returned.
Op(name, outcome, err) == [ op |-> name, outcome |-> outcome, err |-> err ]

Done(name) == Op(name, "ok", NoError)

Outcome(ok) == IF ok THEN "ok" ELSE "error"

\* The error a collaborator call returns for its outcome.
ErrOf(ok, cancelled, m) == IF ok THEN NoError ELSE CollaboratorError(cancelled, m)

\* A call returns r from StartPostgreSQLContainer; every layered entry point
\* returns that value unchanged.
Return(r) ==
    /\ startResult' = r
    /\ result' = r
    /\ tc' = r.handle
    /\ pc' = "returned"

CallStartPostgreSQLContainer(c) ==
    /\ pc = "idle"
    /\ entry' = "StartPostgreSQLContainer"
    /\ arg' = c
    /\ cancelledAtCall' = ctxCancelled
    /\ configIn' = c
    /\ pc' = "run"
    /\ UNCHANGED << osVars, wrapperVars, helperVars, ctxCancelled, dockerStatus, config, runArgs, host, port,
                    databaseURL, migrationsPath, migrator, poolConfig, container,
                    pool, pending, returnVars, closeVars, log >>

\* The three entry points that run the preflight check first.
EnterChecked(e, c) ==
    /\ pc = "idle"
    /\ entry' = e
    /\ arg' = c
    /\ cancelledAtCall' = ctxCancelled
    /\ pc' = "check"
    /\ UNCHANGED << osVars, wrapperVars, helperVars, ctxCancelled, provisionVars, container, pool,
                    pending, returnVars, closeVars, log >>

CallStartPostgreSQLContainerWithCheck(c) ==
    EnterChecked("StartPostgreSQLContainerWithCheck", c)

CallStartSimplePostgreSQLContainer ==
    EnterChecked("StartSimplePostgreSQLContainer", DefaultPostgreSQLConfig)

CallStartPostgreSQLContainerWithMigrations(path) ==
    EnterChecked("StartPostgreSQLContainerWithMigrations",
                 [ DefaultPostgreSQLConfig EXCEPT !.RunMigrations = TRUE,
                                                  !.MigrationsPath = path ])

\* The log entries of the diagnostic commands a preflight check ran: all of
\* them succeeded except the last one of an unavailable result.
PreflightLog(status) ==
    [ i \in 1..Len(status.steps) |->
        IF i = Len(status.steps) /\ ~status.Available
          THEN Op(status.steps[i], "error", CollaboratorError(FALSE, {}))
          ELSE Done(status.steps[i]) ]

ReasonText(reason) == [ is |-> {}, text |-> reason, msg |-> {} ]

\* Variant of PreflightCheck: the result of the check is not looked at.
PreflightCheckIgnored(lookPath, info, images) ==
    /\ pc = "check"
    /\ dockerStatus' = CheckDockerAvailability(lookPath, info, images)
    /\ dockerEnv' = DockerEnv(lookPath, info, images)
    /\ log' = log \o PreflightLog(dockerStatus')
    /\ configIn' = arg
    /\ pc' = "run"
    /\ UNCHANGED << environ, fs, callerFile, sources, getwdOk, foundPath, walk, skipResult, helperVars, wrapperVars,
                    callVars, ctxCancelled, config, runArgs, host, port, databaseURL,
                    migrationsPath, migrator, poolConfig, container, pool, pending,
                    returnVars, closeVars >>

\* StartPostgreSQLContainerWithCheck up to its call of StartPostgreSQLContainer.
PreflightCheck(lookPath, info, images) ==
    /\ pc = "check"
    /\ dockerStatus' = CheckDockerAvailability(lookPath, info, images)
    /\ dockerEnv' = DockerEnv(lookPath, info, images)
    /\ log' = log \o PreflightLog(dockerStatus')
    /\ IF ~dockerStatus'.Available
         THEN /\ result' = [ handle |-> NilHandle,
                             err |-> ErrorfSentinel(ErrDockerNotAvailable,
                                                    ReasonText(dockerStatus'.Reason)) ]
              /\ pc' = "returned"
              /\ UNCHANGED << configIn, startResult, tc >>
         ELSE /\ configIn' = arg
              /\ pc' = "run"
              /\ UNCHANGED returnVars
    /\ UNCHANGED << environ, fs, callerFile, sources, getwdOk, foundPath, walk, skipResult, helperVars, wrapperVars,
                    callVars, ctxCancelled, config, runArgs, host, port, databaseURL,
                    migrationsPath, migrator, poolConfig, container, pool, pending,
                    closeVars >>

\* Variant of CallSkipIfDockerUnavailable: a message is returned in both
\* cases.
CallSkipIfDockerUnavailableTalkative(lookPath, info, images) ==
    LET status == CheckDockerAvailability(lookPath, info, images)
    IN  /\ pc = "idle"
        /\ skipResult = NoResult
        /\ skipResult' =
              [ shouldSkip |-> ~status.Available,
                message    |-> << "Skipping tests: Docker not available - ", status.Reason >>,
                status     |-> status,
                env        |-> DockerEnv(lookPath, info, images) ]
        /\ UNCHANGED << pc, environ, fs, callerFile, sources, getwdOk, foundPath, walk, dockerEnv,
                        helperVars, wrapperVars, callVars, ctxCancelled, provisionVars, container,
                        pool, pending, returnVars, closeVars, log >>

\* SkipIfDockerUnavailable, called before anything is started.  Beside the
\* pair it returns, status and env keep the result of its check and the
\* environment it ran in.
CallSkipIfDockerUnavailable(lookPath, info, images) ==
    LET status == CheckDockerAvailability(lookPath, info, images)
    IN  /\ pc = "idle"
        /\ skipResult = NoResult
        /\ skipResult' =
              [ shouldSkip |-> ~status.Available,
                message    |-> IF ~status.Available
                                 THEN << "Skipping tests: Docker not available - ",
                                         status.Reason >>
                                 ELSE <<>>,
                status     |-> status,
                env        |-> DockerEnv(lookPath, info, images) ]
        /\ UNCHANGED << pc, environ, fs, callerFile, sources, getwdOk, foundPath, walk, dockerEnv,
                        helperVars, wrapperVars, callVars, ctxCancelled, provisionVars, container,
                        pool, pending, returnVars, closeVars, log >>

----------------------------------------------------------------------------
\* StartPostgreSQLContainer.

\* Variant of StartError: the two tests are applied independently and every
\* kind that applies is wrapped.
StartErrorBothKinds(err) ==
    LET kinds == { k \in { ErrContainerStartTimeout, ErrContainerPortConflict } :
                     \/ k = ErrContainerStartTimeout /\ Contains(err, "timeout")
                     \/ /\ k = ErrContainerPortConflict
                        /\ Contains(err, "port")
                        /\ Contains(err, "already in use") }
    IN  IF kinds = {} THEN ErrorfWrap("failed to start PostgreSQL container: %w", err)
        ELSE [ is   |-> kinds,
               text |-> CHOOSE k \in kinds : TRUE,
               msg  |-> UNION { SentinelMsg(k) : k \in kinds } \cup err.msg ]

\* Variant of StartError: the port-conflict test is applied before the
\* timeout test.
StartErrorPortFirst(err) ==
    IF Contains(err, "port") /\ Contains(err, "already in use")
      THEN ErrorfSentinel(ErrContainerPortConflict, err)
    ELSE IF Contains(err, "timeout")
      THEN ErrorfSentinel(ErrContainerStartTimeout, err)
    ELSE ErrorfWrap("failed to start PostgreSQL container: %w", err)

\* Classification of a container start failure.
StartError(err) ==
    IF Contains(err, "timeout")
      THEN ErrorfSentinel(ErrContainerStartTimeout, err)
    ELSE IF Contains(err, "port") /\ Contains(err, "already in use")
      THEN ErrorfSentinel(ErrContainerPortConflict, err)
    ELSE ErrorfWrap("failed to start PostgreSQL container: %w", err)

\* Variant of Failure: the half-built handle is returned next to the error.
FailureWithHandle(err) ==
    [ handle |-> [ Container |-> "pgContainer", Pool |-> "nil", DatabaseURL |-> databaseURL,
                   Context |-> "ctx", DatabaseName |-> "", Username |-> "",
                   Password |-> "" ],
      err |-> err ]

Failure(err) == [ handle |-> NilHandle, err |-> err ]

\* Variant of RunContainer: a nil config is replaced by other values than
\* the documented defaults.
RunContainerOtherDefault(ok, m) ==
    /\ pc = "run"
    /\ config' = IF configIn = NilConfig THEN CustomConfig(FALSE, <<>>) ELSE configIn
    /\ runArgs' = << << "postgis/postgis:", config'.PostgreSQLVersion >>,
                     config'.DatabaseName, config'.Username, config'.Password,
                     "database system is ready to accept connections", 2,
                     config'.StartupTimeout >>
    /\ log' = Append(log, Op("postgres.Run", Outcome(ok), ErrOf(ok, ctxCancelled, m)))
    /\ IF ok
         THEN /\ container' = "running"
              /\ pc' = "host"
              /\ UNCHANGED returnVars
         ELSE /\ Return(Failure(StartError(CollaboratorError(ctxCancelled, m))))
              /\ UNCHANGED container
    /\ UNCHANGED << osVars, wrapperVars, helperVars, callVars, ctxCancelled, dockerStatus, configIn, host, port,
                    databaseURL, migrationsPath, migrator, poolConfig, pool, pending,
                    closeVars >>

\* Nil-config substitution and postgres.Run.
RunContainer(ok, m) ==
    /\ pc = "run"
    /\ config' = IF configIn = NilConfig THEN DefaultPostgreSQLConfig ELSE configIn
    /\ runArgs' = << << "postgis/postgis:", config'.PostgreSQLVersion >>,
                     config'.DatabaseName, config'.Username, config'.Password,
                     "database system is ready to accept connections", 2,
                     config'.StartupTimeout >>
    /\ log' = Append(log, Op("postgres.Run", Outcome(ok), ErrOf(ok, ctxCancelled, m)))
    /\ IF ok
         THEN /\ container' = "running"
              /\ pc' = "host"
              /\ UNCHANGED returnVars
         ELSE /\ Return(Failure(StartError(CollaboratorError(ctxCancelled, m))))
              /\ UNCHANGED container
    /\ UNCHANGED << osVars, wrapperVars, helperVars, callVars, ctxCancelled, dockerStatus, configIn, host, port,
                    databaseURL, migrationsPath, migrator, poolConfig, pool, pending,
                    closeVars >>

\* Variant of GetHost: a failed read is tried once more.
GetHostRetried(ok) ==
    /\ pc = "host"
    /\ log' = Append(log, Op("Host", Outcome(ok), ErrOf(ok, ctxCancelled, {})))
    /\ IF ok
         THEN /\ host' = "localhost"
              /\ pc' = "port"
              /\ UNCHANGED returnVars
         ELSE IF \A i \in DOMAIN log : log[i].op # "Host"
           THEN /\ pc' = "host"
                /\ UNCHANGED << host, returnVars >>
           ELSE /\ Return(Failure(ErrorfWrap("failed to get container host: %w",
                                             CollaboratorError(ctxCancelled, {}))))
                /\ UNCHANGED host
    /\ UNCHANGED << osVars, wrapperVars, helperVars, callVars, ctxCancelled, dockerStatus, configIn, config, runArgs,
                    port, databaseURL, migrationsPath, migrator, poolConfig,
                    container, pool, pending, closeVars >>

\* pgContainer.Host
GetHost(ok) ==
    /\ pc = "host"
    /\ log' = Append(log, Op("Host", Outcome(ok), ErrOf(ok, ctxCancelled, {})))
    /\ IF ok
         THEN /\ host' = "localhost"
              /\ pc' = "port"
              /\ UNCHANGED returnVars
         ELSE /\ Return(Failure(ErrorfWrap("failed to get container host: %w",
                                           CollaboratorError(ctxCancelled, {}))))
              /\ UNCHANGED host
    /\ UNCHANGED << osVars, wrapperVars, helperVars, callVars, ctxCancelled, dockerStatus, configIn, config, runArgs,
                    port, databaseURL, migrationsPath, migrator, poolConfig,
                    container, pool, pending, closeVars >>

\* Variant of GetMappedPort: the migrations are run whatever RunMigrations
\* says.
GetMappedPortAlwaysMigrates(ok) ==
    /\ pc = "port"
    /\ log' = Append(log, Op("MappedPort", Outcome(ok), ErrOf(ok, ctxCancelled, {})))
    /\ IF ok
         THEN /\ port' = "32768"
              /\ databaseURL' = DatabaseURLOf(config.Username, config.Password, host,
                                              port', config.DatabaseName)
              /\ pc' = "mig_path"
              /\ UNCHANGED returnVars
         ELSE /\ Return(Failure(ErrorfWrap("failed to get container port: %w",
                                           CollaboratorError(ctxCancelled, {}))))
              /\ UNCHANGED << port, databaseURL >>
    /\ UNCHANGED << osVars, wrapperVars, helperVars, callVars, ctxCancelled, dockerStatus, configIn, config, runArgs,
                    host, migrationsPath, migrator, poolConfig, container, pool,
                    pending, closeVars >>

\* MappedPort, then the connection URL and the branch on RunMigrations.
GetMappedPort(ok) ==
    /\ pc = "port"
    /\ log' = Append(log, Op("MappedPort", Outcome(ok), ErrOf(ok, ctxCancelled, {})))
    /\ IF ok
         THEN /\ port' = "32768"
              /\ databaseURL' = DatabaseURLOf(config.Username, config.Password, host,
                                              port', config.DatabaseName)
              /\ pc' = IF config.RunMigrations THEN "mig_path" ELSE "parse"
              /\ UNCHANGED returnVars
         ELSE /\ Return(Failure(ErrorfWrap("failed to get container port: %w",
                                           CollaboratorError(ctxCancelled, {}))))
              /\ UNCHANGED << port, databaseURL >>
    /\ UNCHANGED << osVars, wrapperVars, helperVars, callVars, ctxCancelled, dockerStatus, configIn, config, runArgs,
                    host, migrationsPath, migrator, poolConfig, container, pool,
                    pending, closeVars >>

\* Variant of MigrationFailure: the failure is noted and provisioning goes on.
MigrationFailureIgnored(err) ==
    /\ pending' = ErrorfSentinel(ErrMigrationsFailed, err)
    /\ pc' = "parse"

\* A failure of runMigrations as StartPostgreSQLContainer reports it; the
\* container is terminated next.
MigrationFailure(err) ==
    /\ pending' = ErrorfSentinel(ErrMigrationsFailed, err)
    /\ pc' = "cleanup_term"

\* Variant of ResolveMigrationsPath: FindMigrationsPath is asked whatever
\* path was configured, and a directory it finds is used.
ResolveMigrationsPathAlways ==
    LET file == RuntimeCaller(ProvisioningStack(sources, entry), 2)
        r    == FindMigrationsPath(environ, fs, file, getwdOk)
    IN  /\ pc = "mig_path"
        /\ migrationsPath' = IF config.MigrationsPath = <<>> \/ r.path # FallbackPath
                               THEN r.path ELSE config.MigrationsPath
        /\ callerFile' = file
        /\ foundPath' = r.path
        /\ printed' = printed \o r.printed
        /\ log' = Append(log, Done("FindMigrationsPath"))
        /\ pc' = IF IsAbs(migrationsPath') THEN "mig_new" ELSE "mig_abs"
        /\ UNCHANGED << environ, fs, sources, getwdOk, walk, dockerEnv, skipResult, wrapperVars,
                        helperVars, callVars, ctxCancelled, dockerStatus, configIn, config,
                        runArgs, host, port, databaseURL, migrator, poolConfig, container,
                        pool, pending, returnVars, closes, closeResult, closeVia >>

\* runMigrations: auto-detection of an empty path.  FindMigrationsPath is
\* called two frames below StartPostgreSQLContainer.
ResolveMigrationsPath ==
    LET file == RuntimeCaller(ProvisioningStack(sources, entry), 2)
        r    == FindMigrationsPath(environ, fs, file, getwdOk)
    IN  /\ pc = "mig_path"
        /\ IF config.MigrationsPath = <<>>
             THEN /\ migrationsPath' = r.path
                  /\ callerFile' = file
                  /\ foundPath' = r.path
                  /\ printed' = printed \o r.printed
                  /\ log' = Append(log, Done("FindMigrationsPath"))
             ELSE /\ migrationsPath' = config.MigrationsPath
                  /\ UNCHANGED << callerFile, foundPath, printed, log >>
        /\ pc' = IF IsAbs(migrationsPath') THEN "mig_new" ELSE "mig_abs"
        /\ UNCHANGED << environ, fs, sources, getwdOk, walk, dockerEnv, skipResult, wrapperVars,
                        helperVars, callVars, ctxCancelled, dockerStatus, configIn, config,
                        runArgs, host, port, databaseURL, migrator, poolConfig, container,
                        pool, pending, returnVars, closes, closeResult, closeVia >>

\* runMigrations: a relative path is made absolute.
AbsMigrationsPath(ok) ==
    /\ pc = "mig_abs"
    /\ log' = Append(log, Op("filepath.Abs", Outcome(ok), ErrOf(ok, FALSE, {})))
    /\ IF ok
         THEN /\ migrationsPath' = Abs(migrationsPath)
              /\ pc' = "mig_new"
              /\ UNCHANGED pending
         ELSE /\ MigrationFailure(ErrorfWrap("failed to get absolute path for migrations: %w",
                                             CollaboratorError(FALSE, {})))
              /\ UNCHANGED migrationsPath
    /\ UNCHANGED << osVars, wrapperVars, helperVars, callVars, ctxCancelled, dockerStatus, configIn, config, runArgs,
                    host, port, databaseURL, migrator, poolConfig, container, pool,
                    returnVars, closeVars >>

\* The engine's bookkeeping table, named by x-migrations-table.
MigrationsTable == << "public", "schema_migrations" >>

\* The database d with n rows in table t, created if need be.
WithRows(d, t, n) ==
    [ d EXCEPT !.rows = [ u \in DOMAIN d.rows \cup { t } |->
                            IF u = t THEN n ELSE d.rows[u] ] ]

\* runMigrations: migrate.New.  Opening the database side creates the
\* bookkeeping table.
MigrateNew(ok) ==
    /\ pc = "mig_new"
    /\ log' = Append(log, Op("migrate.New", Outcome(ok), ErrOf(ok, FALSE, {})))
    /\ IF ok
         THEN /\ migrator' = "open"
              /\ db' = WithRows(db, MigrationsTable, 0)
              /\ pc' = "mig_up"
              /\ UNCHANGED pending
         ELSE /\ MigrationFailure(ErrorfWrap("failed to create migrate instance: %w",
                                             CollaboratorError(FALSE, {})))
              /\ UNCHANGED << migrator, db >>
    /\ UNCHANGED << osVars, wrapperVars, databases, helper, hArgs, hIdx, hTables, issued, before,
                    helperResult, callVars, ctxCancelled, dockerStatus, configIn, config, runArgs,
                    host, port, databaseURL, migrationsPath, poolConfig, container,
                    pool, returnVars, closeVars >>

UpOutcomes == { "ok", "ErrNoChange", "error" }

\* What the deferred function of runMigrations prints for the two errors
\* m.Close returned.
MigrateCloseWarnings(sourceOk, databaseOk) ==
    (IF sourceOk THEN <<>>
     ELSE << [ text |-> "Warning: failed to close migrate source: %v",
               err  |-> CollaboratorError(FALSE, {}) ] >>)
    \o
    (IF databaseOk THEN <<>>
     ELSE << [ text |-> "Warning: failed to close migrate database: %v",
               err  |-> CollaboratorError(FALSE, {}) ] >>)

\* Variant of MigrateUp: "no change" is reported like any other error.
MigrateUpStrict(outcome, sourceOk, databaseOk) ==
    /\ pc = "mig_up"
    /\ log' = log \o << Op("m.Up", outcome,
                            IF outcome = "ok" THEN NoError
                            ELSE CollaboratorError(FALSE, {})),
                         Op("m.Close", Outcome(sourceOk /\ databaseOk),
                            ErrOf(sourceOk /\ databaseOk, FALSE, {})) >>
    /\ migrator' = "closed"
    /\ printed' = printed \o MigrateCloseWarnings(sourceOk, databaseOk)
    /\ db' = IF outcome = "ok" THEN WithRows(db, MigrationsTable, 1) ELSE db
    /\ IF outcome # "ok"
         THEN MigrationFailure(ErrorfWrap("failed to run migrations: %w",
                                          CollaboratorError(FALSE, {})))
         ELSE /\ pc' = "parse"
              /\ UNCHANGED pending
    /\ UNCHANGED << osVars, wrapperVars, databases, helper, hArgs, hIdx, hTables, issued, before,
                    helperResult, callVars, ctxCancelled, dockerStatus, configIn, config, runArgs,
                    host, port, databaseURL, migrationsPath, poolConfig, container,
                    pool, returnVars, closes, closeResult, closeVia >>

\* runMigrations: m.Up and the deferred m.Close with the warnings it prints.
\* A successful Up records the version it applied; an error other than
\* migrate.ErrNoChange is returned.
MigrateUp(outcome, sourceOk, databaseOk) ==
    /\ pc = "mig_up"
    /\ log' = log \o << Op("m.Up", outcome,
                            IF outcome = "ok" THEN NoError
                            ELSE CollaboratorError(FALSE, {})),
                         Op("m.Close", Outcome(sourceOk /\ databaseOk),
                            ErrOf(sourceOk /\ databaseOk, FALSE, {})) >>
    /\ migrator' = "closed"
    /\ printed' = printed \o MigrateCloseWarnings(sourceOk, databaseOk)
    /\ db' = IF outcome = "ok" THEN WithRows(db, MigrationsTable, 1) ELSE db
    /\ IF outcome = "error"
         THEN MigrationFailure(ErrorfWrap("failed to run migrations: %w",
                                          CollaboratorError(FALSE, {})))
         ELSE /\ pc' = "parse"
              /\ UNCHANGED pending
    /\ UNCHANGED << osVars, wrapperVars, databases, helper, hArgs, hIdx, hTables, issued, before,
                    helperResult, callVars, ctxCancelled, dockerStatus, configIn, config, runArgs,
                    host, port, databaseURL, migrationsPath, poolConfig, container,
                    pool, returnVars, closes, closeResult, closeVia >>

\* pgxpool.ParseConfig and the pool settings applied to its result.
ParseConfig(ok) ==
    /\ pc = "parse"
    /\ log' = Append(log, Op("pgxpool.ParseConfig", Outcome(ok), ErrOf(ok, FALSE, {})))
    /\ IF ok
         THEN /\ poolConfig' = [ ConnString      |-> databaseURL,
                                 MaxConns        |-> config.MaxConns,
                                 MinConns        |-> config.MinConns,
                                 MaxConnLifetime |-> config.MaxConnLife,
                                 MaxConnIdleTime |-> config.MaxConnIdle ]
              /\ pc' = "new_pool"
              /\ UNCHANGED pending
         ELSE /\ pending' = ErrorfWrap("failed to parse database URL: %w",
                                       CollaboratorError(FALSE, {}))
              /\ pc' = "cleanup_term"
              /\ UNCHANGED poolConfig
    /\ UNCHANGED << osVars, wrapperVars, helperVars, callVars, ctxCancelled, dockerStatus, configIn, config, runArgs,
                    host, port, databaseURL, migrationsPath, migrator, container,
                    pool, returnVars, closeVars >>

\* Variant of NewWithConfig: a construction failure is reported as a
\* connection failure.
NewWithConfigAsConnFailed(ok) ==
    /\ pc = "new_pool"
    /\ log' = Append(log, Op("pgxpool.NewWithConfig", Outcome(ok), ErrOf(ok, ctxCancelled, {})))
    /\ IF ok
         THEN /\ pool' = "open"
              /\ pc' = "ping"
              /\ UNCHANGED pending
         ELSE /\ pending' = ErrorfSentinel(ErrDatabaseConnFailed,
                                           CollaboratorError(ctxCancelled, {}))
              /\ pc' = "cleanup_term"
              /\ UNCHANGED pool
    /\ UNCHANGED << osVars, wrapperVars, helperVars, callVars, ctxCancelled, provisionVars, container, returnVars,
                    closeVars >>

\* The handle returned on success.
NewHandle ==
    [ Container    |-> "pgContainer",
      Pool         |-> "pool",
      DatabaseURL  |-> databaseURL,
      Context      |-> "ctx",
      DatabaseName |-> config.DatabaseName,
      Username     |-> config.Username,
      Password     |-> config.Password ]

\* Variant of NewWithConfig: the handle is returned as soon as the pool
\* exists.
NewWithConfigReturnsHandle(ok) ==
    /\ pc = "new_pool"
    /\ log' = Append(log, Op("pgxpool.NewWithConfig", Outcome(ok), ErrOf(ok, ctxCancelled, {})))
    /\ IF ok
         THEN /\ pool' = "open"
              /\ Return([ handle |-> NewHandle, err |-> NoError ])
              /\ UNCHANGED pending
         ELSE /\ pending' = ErrorfWrap("failed to create connection pool: %w",
                                       CollaboratorError(ctxCancelled, {}))
              /\ pc' = "cleanup_term"
              /\ UNCHANGED << pool, returnVars >>
    /\ UNCHANGED << osVars, wrapperVars, helperVars, callVars, ctxCancelled, provisionVars, container,
                    closeVars >>

\* pgxpool.NewWithConfig
NewWithConfig(ok) ==
    /\ pc = "new_pool"
    /\ log' = Append(log, Op("pgxpool.NewWithConfig", Outcome(ok), ErrOf(ok, ctxCancelled, {})))
    /\ IF ok
         THEN /\ pool' = "open"
              /\ pc' = "ping"
              /\ UNCHANGED pending
         ELSE /\ pending' = ErrorfWrap("failed to create connection pool: %w",
                                       CollaboratorError(ctxCancelled, {}))
              /\ pc' = "cleanup_term"
              /\ UNCHANGED pool
    /\ UNCHANGED << osVars, wrapperVars, helperVars, callVars, ctxCancelled, provisionVars, container, returnVars,
                    closeVars >>

\* Variant of Ping: the handle is returned whatever the ping said.
PingUnchecked(ok) ==
    /\ pc = "ping"
    /\ log' = Append(log, Op("pool.Ping", Outcome(ok), ErrOf(ok, ctxCancelled, {})))
    /\ Return([ handle |-> NewHandle, err |-> NoError ])
    /\ UNCHANGED << osVars, wrapperVars, helperVars, callVars, ctxCancelled, provisionVars, container, pool, pending,
                    closeVars >>

\* pool.Ping and, when it succeeds, the return of the handle.
Ping(ok) ==
    /\ pc = "ping"
    /\ log' = Append(log, Op("pool.Ping", Outcome(ok), ErrOf(ok, ctxCancelled, {})))
    /\ IF ok
         THEN /\ Return([ handle |-> NewHandle, err |-> NoError ])
              /\ UNCHANGED pending
         ELSE /\ pending' = ErrorfSentinel(ErrDatabaseConnFailed,
                                           CollaboratorError(ctxCancelled, {}))
              /\ pc' = "cleanup_pool"
              /\ UNCHANGED returnVars
    /\ UNCHANGED << osVars, wrapperVars, helperVars, callVars, ctxCancelled, provisionVars, container, pool, closeVars >>

\* Variant of CleanupPoolClose: the pool is left open.
CleanupPoolLeftOpen ==
    /\ pc = "cleanup_pool"
    /\ pc' = "cleanup_term"
    /\ UNCHANGED << osVars, wrapperVars, helperVars, callVars, ctxCancelled, provisionVars, container, pool, pending,
                    returnVars, closeVars, log >>

\* Rollback after a failed Ping: pool.Close
CleanupPoolClose ==
    /\ pc = "cleanup_pool"
    /\ log' = Append(log, Done("pool.Close"))
    /\ pool' = "closed"
    /\ pc' = "cleanup_term"
    /\ UNCHANGED << osVars, wrapperVars, helperVars, callVars, ctxCancelled, provisionVars, container, pending,
                    returnVars, closeVars >>

\* Rollback: Terminate, its result discarded, then the return of the error.
\* A Terminate that fails leaves the container running.
CleanupTerminate(ok) ==
    /\ pc = "cleanup_term"
    /\ log' = Append(log, Op("Terminate", Outcome(ok), ErrOf(ok, ctxCancelled, {})))
    /\ container' = IF ok THEN "terminated" ELSE container
    /\ Return(Failure(pending))
    /\ UNCHANGED << osVars, wrapperVars, helperVars, callVars, ctxCancelled, provisionVars, pool, pending, closeVars >>

----------------------------------------------------------------------------
\* PostgreSQLTestContainer.Close

\* Where Close goes after its pool step.
AfterPool == IF tc.Container # "nil" THEN "close_term" ELSE "closed"

\* fmt.Errorf("cleanup errors: %v", errs)
CleanupErrors(errs) ==
    [ is |-> {}, text |-> "cleanup errors: %v", msg |-> {}, errs |-> errs ]

\* The value Close returns for the errors it collected.
CloseReturn(errs) ==
    [ err |-> IF Len(errs) > 0 THEN CleanupErrors(errs) ELSE NoError ]

\* What the callable returned by WithCleanup prints for the value Close
\* returned; a direct Close prints nothing.
CleanupWarning(via, r) ==
    IF via = "WithCleanup" /\ r.err # NoError
      THEN << [ text |-> "Warning: failed to cleanup PostgreSQL container: %v",
                err |-> r.err ] >>
      ELSE <<>>

\* Close returns r.
CloseDone(via, r) ==
    /\ closeResult' = r
    /\ printed' = printed \o CleanupWarning(via, r)
    /\ pc' = "closed"

\* A handle the caller builds itself instead of obtaining it from an entry
\* point: the zero value, or one with only some of its references set.
LiteralHandle(p, c) ==
    [ Container    |-> c,
      Pool         |-> p,
      DatabaseURL  |-> <<>>,
      Context      |-> "ctx",
      DatabaseName |-> "",
      Username     |-> "",
      Password     |-> "" ]

BuildHandle(p, c) ==
    /\ pc = "idle"
    /\ entry' = "literal"
    /\ tc' = LiteralHandle(p, c)
    /\ pool' = IF p = "nil" THEN "none" ELSE "open"
    /\ container' = IF c = "nil" THEN "none" ELSE "running"
    /\ pc' = "built"
    /\ UNCHANGED << osVars, wrapperVars, helperVars, arg, cancelledAtCall, ctxCancelled, provisionVars, pending,
                    startResult, result, closeVars, log >>

\* Variant of CloseBegin: the pool is closed without the nil test.
CloseBeginUnguarded(via) ==
    /\ pc \in { "returned", "built", "closed" }
    /\ tc # NilHandle
    /\ closes < MaxCloses
    /\ closes' = closes + 1
    /\ closeVia' = via
    /\ pc' = "close_pool"
    /\ UNCHANGED << closeResult, printed >>
    /\ UNCHANGED << osVars, wrapperVars, helperVars, callVars, ctxCancelled, provisionVars, container, pool, pending,
                    returnVars, log >>

\* The caller calls Close on the handle it holds, directly or through the
\* callable WithCleanup returned; Close tests the pool reference.
CloseBegin(via) ==
    /\ pc \in { "returned", "built", "closed" }
    /\ tc # NilHandle
    /\ closes < MaxCloses
    /\ closes' = closes + 1
    /\ closeVia' = via
    /\ IF tc.Pool # "nil"
         THEN /\ pc' = "close_pool"
              /\ UNCHANGED << closeResult, printed >>
         ELSE IF AfterPool = "closed"
           THEN CloseDone(via, CloseReturn(<<>>))
           ELSE /\ pc' = AfterPool
                /\ UNCHANGED << closeResult, printed >>
    /\ UNCHANGED << osVars, wrapperVars, helperVars, callVars, ctxCancelled, provisionVars, container, pool, pending,
                    returnVars, log >>

\* Variant of ClosePool: the pool reference is cleared once the pool is closed.
ClosePoolClearsRef ==
    /\ pc = "close_pool"
    /\ tc.Pool # "nil"
    /\ log' = Append(log, Done("pool.Close"))
    /\ pool' = "closed"
    /\ tc' = [ tc EXCEPT !.Pool = "nil" ]
    /\ pc' = AfterPool
    /\ UNCHANGED << closeResult, printed >>
    /\ UNCHANGED << osVars, wrapperVars, helperVars, callVars, ctxCancelled, provisionVars, container, pending,
                    startResult, result, closes, closeVia >>

\* tc.Pool.Close(), which faults on a nil pool, and the test of the container
\* reference that follows it.
ClosePool ==
    /\ pc = "close_pool"
    /\ IF tc.Pool = "nil"
         THEN /\ pc' = "panic"
              /\ UNCHANGED << pool, log, closeResult, printed >>
         ELSE /\ log' = Append(log, Done("pool.Close"))
              /\ pool' = "closed"
              /\ IF AfterPool = "closed"
                   THEN CloseDone(closeVia, CloseReturn(<<>>))
                   ELSE /\ pc' = AfterPool
                        /\ UNCHANGED << closeResult, printed >>
    /\ UNCHANGED << osVars, wrapperVars, helperVars, callVars, ctxCancelled, provisionVars, container, pending,
                    returnVars, closes, closeVia >>

\* Variant of CloseTerminate: the terminate error is dropped.
CloseTerminateDropsError(ok) ==
    /\ pc = "close_term"
    /\ tc.Container # "nil"
    /\ log' = Append(log, Op("Terminate", Outcome(ok), ErrOf(ok, ctxCancelled, {})))
    /\ container' = IF ok THEN "terminated" ELSE container
    /\ CloseDone(closeVia, CloseReturn(<<>>))
    /\ UNCHANGED << osVars, wrapperVars, helperVars, callVars, ctxCancelled, provisionVars, pool, pending, returnVars,
                    closes, closeVia >>

\* tc.Container.Terminate(tc.Context), which faults on a nil container, and
\* the return of the collected errors.
CloseTerminate(ok) ==
    /\ pc = "close_term"
    /\ IF tc.Container = "nil"
         THEN /\ pc' = "panic"
              /\ UNCHANGED << container, log, closeResult, printed >>
         ELSE /\ log' = Append(log, Op("Terminate", Outcome(ok), ErrOf(ok, ctxCancelled, {})))
              /\ container' = IF ok THEN "terminated" ELSE container
              /\ CloseDone(closeVia, CloseReturn(
                    IF ok THEN <<>>
                    ELSE << ErrorfWrap("failed to terminate container: %w",
                                       CollaboratorError(ctxCancelled, {})) >>))
    /\ UNCHANGED << osVars, wrapperVars, helperVars, callVars, ctxCancelled, provisionVars, pool, pending, returnVars,
                    closes, closeVia >>

----------------------------------------------------------------------------
Next ==
    \/ Cancel
    \/ \E c \in Configs : CallStartPostgreSQLContainer(c)
    \/ \E c \in Configs : CallStartPostgreSQLContainerWithCheck(c)
    \/ CallStartSimplePostgreSQLContainer
    \/ \E p \in MigrationPaths : CallStartPostgreSQLContainerWithMigrations(p)
    \/ \E lookPath, info, images \in BOOLEAN : PreflightCheck(lookPath, info, images)
    \/ \E lookPath, info, images \in BOOLEAN :
         CallSkipIfDockerUnavailable(lookPath, info, images)
    \/ \E ok \in CtxOutcomes, m \in SUBSET Keywords : RunContainer(ok, m)
    \/ \E ok \in CtxOutcomes : GetHost(ok)
    \/ \E ok \in CtxOutcomes : GetMappedPort(ok)
    \/ ResolveMigrationsPath
    \/ \E ok \in BOOLEAN : AbsMigrationsPath(ok)
    \/ \E ok \in BOOLEAN : MigrateNew(ok)
    \/ \E outcome \in UpOutcomes, sourceOk, databaseOk \in BOOLEAN :
         MigrateUp(outcome, sourceOk, databaseOk)
    \/ \E ok \in BOOLEAN : ParseConfig(ok)
    \/ \E ok \in CtxOutcomes : NewWithConfig(ok)
    \/ \E ok \in CtxOutcomes : Ping(ok)
    \/ CleanupPoolClose
    \/ \E ok \in CtxOutcomes : CleanupTerminate(ok)
    \/ \E p \in { "nil", "pool" }, c \in { "nil", "pgContainer" } : BuildHandle(p, c)
    \/ \E via \in { "Close", "WithCleanup" } : CloseBegin(via)
    \/ ClosePool
    \/ \E ok \in CtxOutcomes : CloseTerminate(ok)

Spec == Init /\ [][Next]_vars

----------------------------------------------------------------------------
\* The database behind the pool.  A table is <<schema, name>>; rows gives the
\* number of rows of every existing table, fk the foreign keys as pairs
\* <<referencing table, referenced table>>.

\* Largest number of rows a table starts with.
MaxRows == 1

\* The names CleanAllTables leaves out of its enumeration.
Denylist ==
    { "schema_migrations", "spatial_ref_sys", "geometry_columns", "geography_columns" }

\* The tables a test database may hold: lower-case names, a name created
\* with quotes that differs from another only by case, a denylisted table,
\* and a table of another schema.
TableUniverse ==
    { <<"public", "t1">>, <<"public", "T1">>, <<"public", "t2">>,
      <<"public", "schema_migrations">>, <<"audit", "t1">> }

ForeignKeySets == { {}, { << <<"public", "t2">>, <<"public", "t1">> >> } }

Databases ==
    { d \in [ rows : UNION { [ S -> 0..MaxRows ] : S \in SUBSET TableUniverse },
              fk   : ForeignKeySets ] :
        \A e \in d.fk : e[1] \in DOMAIN d.rows /\ e[2] \in DOMAIN d.rows }

\* The rows of SELECT tablename FROM pg_tables WHERE schemaname = 'public'
\* AND tablename NOT IN (denylist).
PgTablesQuery(d) == { t[2] : t \in { u \in DOMAIN d.rows : u[1] = "public" } } \ Denylist

\* Variant of TableExistsQuery: the lookup is confined to the public schema
\* and leaves out the denylisted names.
TableExistsQueryPublic(d, name) ==
    /\ << "public", name >> \in DOMAIN d.rows
    /\ name \notin Denylist

\* SELECT EXISTS (SELECT FROM information_schema.tables WHERE table_name = $1):
\* the parameter is compared as a string, in every schema.
TableExistsQuery(d, name) == \E t \in DOMAIN d.rows : t[2] = name

\* The orders in which a query may deliver a set of rows.
Orders(S) == { o \in [ 1..Cardinality(S) -> S ] : { o[i] : i \in DOMAIN o } = S }

\* tables[0] + ", " + tables[1] + ...
RECURSIVE CommaList(_)
CommaList(tables) ==
    IF Len(tables) = 1
      THEN << tables[1] >>
      ELSE CommaList(SubSeq(tables, 1, Len(tables) - 1)) \o << ", ", tables[Len(tables)] >>

\* "TRUNCATE " + list + " CASCADE": the statement text, piece by piece.
TruncateSQL(tables) == << "TRUNCATE " >> \o CommaList(tables) \o << " CASCADE" >>

\* The server reads an identifier written without quotes in lower case.
Fold(ident) ==
    CASE ident = "T1" -> "t1"
      [] ident = "TestDB" -> "testdb"
      [] OTHER -> ident

\* An unqualified table identifier is looked up in the search path, public.
Resolve(ident) == << "public", Fold(ident) >>

\* The tables a TRUNCATE statement text designates.
TruncateTargets(sql) ==
    { Resolve(sql[i]) : i \in { j \in 2..(Len(sql) - 1) : j % 2 = 0 } }

\* The tables referencing a table of S, directly or through other tables.
RECURSIVE Cascade(_, _)
Cascade(d, S) ==
    LET more == { e[1] : e \in { f \in d.fk : f[2] \in S } }
    IN  IF more \subseteq S THEN S ELSE Cascade(d, S \cup more)

\* Variant of ExecTruncate: a designated table that does not exist is passed
\* over and the others are emptied.
ExecTruncateSkipping(d, sql) ==
    LET targets == TruncateTargets(sql) \cap DOMAIN d.rows
    IN  [ ok |-> TRUE,
          db |-> [ d EXCEPT !.rows =
                     [ t \in DOMAIN d.rows |->
                         IF t \in Cascade(d, targets) THEN 0 ELSE d.rows[t] ] ] ]

\* The server executes TRUNCATE ... CASCADE: all the designated tables and
\* the tables referencing them are emptied, or, when one designated table
\* does not exist, the statement fails and nothing changes.
ExecTruncate(d, sql) ==
    LET targets == TruncateTargets(sql)
    IN  IF targets \subseteq DOMAIN d.rows
          THEN [ ok |-> TRUE,
                 db |-> [ d EXCEPT !.rows =
                            [ t \in DOMAIN d.rows |->
                                IF t \in Cascade(d, targets) THEN 0 ELSE d.rows[t] ] ] ]
          ELSE [ ok |-> FALSE, db |-> d ]

\* An operation issued by a helper: what was called, with which statement.
Issue(op, sql, ok) == [ op |-> op, sql |-> sql, outcome |-> Outcome(ok) ]

EnumerateSQL == << "SELECT tablename FROM pg_tables WHERE schemaname = 'public' AND tablename NOT IN (...)" >>

ExistsSQL(name) ==
    << "SELECT EXISTS (SELECT FROM information_schema.tables WHERE table_name = $1)", name >>

----------------------------------------------------------------------------
\* The helper methods of a returned handle.

lifecycleVars ==
    << osVars, wrapperVars, callVars, ctxCancelled, provisionVars, container, pool, pending, returnVars,
       closeVars, log >>

\* The configuration StartPostgreSQLContainer works with when called with c.
Effective(c) == IF c = NilConfig THEN DefaultPostgreSQLConfig ELSE c

\* The connection URL built for that configuration.
URLFor(c) ==
    DatabaseURLOf(Effective(c).Username, Effective(c).Password, "localhost", "32768",
                  Effective(c).DatabaseName)

\* The handle returned for it.
HandleFor(c) ==
    [ Container    |-> "pgContainer",
      Pool         |-> "pool",
      DatabaseURL  |-> URLFor(c),
      Context      |-> "ctx",
      DatabaseName |-> Effective(c).DatabaseName,
      Username     |-> Effective(c).Username,
      Password     |-> Effective(c).Password ]

\* StartPostgreSQLContainer(ctx, c), without migrations, has just returned
\* its handle.
ProvisionedWith(c) ==
    /\ NoEnvironment
    /\ pc = "returned"
    /\ entry = "StartPostgreSQLContainer"
    /\ arg = c
    /\ ctxCancelled = FALSE
    /\ cancelledAtCall = FALSE
    /\ dockerStatus = NoDockerStatus
    /\ configIn = c
    /\ config = Effective(c)
    /\ runArgs = << << "postgis/postgis:", Effective(c).PostgreSQLVersion >>,
                    Effective(c).DatabaseName,
                    Effective(c).Username,
                    Effective(c).Password,
                    "database system is ready to accept connections", 2,
                    Effective(c).StartupTimeout >>
    /\ container = "running"
    /\ host = "localhost"
    /\ port = "32768"
    /\ databaseURL = URLFor(c)
    /\ migrationsPath = <<>>
    /\ migrator = "none"
    /\ poolConfig = [ ConnString      |-> URLFor(c),
                      MaxConns        |-> Effective(c).MaxConns,
                      MinConns        |-> Effective(c).MinConns,
                      MaxConnLifetime |-> Effective(c).MaxConnLife,
                      MaxConnIdleTime |-> Effective(c).MaxConnIdle ]
    /\ pool = "open"
    /\ pending = NoError
    /\ startResult = [ handle |-> HandleFor(c), err |-> NoError ]
    /\ result = [ handle |-> HandleFor(c), err |-> NoError ]
    /\ tc = HandleFor(c)
    /\ closes = 0
    /\ closeResult = NoResult
    /\ closeVia = "none"
    /\ printed = <<>>
    /\ log = << Done("postgres.Run"), Done("Host"), Done("MappedPort"),
                Done("pgxpool.ParseConfig"), Done("pgxpool.NewWithConfig"),
                Done("pool.Ping") >>

Provisioned == ProvisionedWith(NilConfig)

\* A handle has been returned and the test has created its tables.
InitTables ==
    /\ Provisioned
    /\ db \in Databases
    /\ databases = { "postgres", DefaultPostgreSQLConfig.DatabaseName }
    /\ HelperIdle

\* A helper call starts on the handle the caller holds.
HelperBegin(name, args) ==
    /\ pc = "returned"
    /\ tc # NilHandle
    /\ helper' = name
    /\ hArgs' = args
    /\ hIdx' = 1
    /\ hTables' = <<>>
    /\ issued' = <<>>
    /\ before' = db

\* A helper call returns r to the caller.
HelperReturnVia(via, r) ==
    /\ helperResult' = r
    /\ pc' = IF via = "WithTableCleanup" THEN "tc_done" ELSE "returned"

HelperReturn(r) == HelperReturnVia(helperVia, r)

CleanAllTablesBegin ==
    /\ HelperBegin("CleanAllTables", <<>>)
    /\ pc' = "ca_query"
    /\ helperResult' = NoResult
    /\ UNCHANGED << db, databases, lifecycleVars >>

\* Pool.Query and the loop over its rows, issued as one read.  outcome says
\* which step failed, if any; order is the order in which the rows arrive.  Without rows the call
\* is over.
CleanAllTablesQuery(outcome, order) ==
    /\ pc = "ca_query"
    /\ issued' = Append(issued, Issue("Query", EnumerateSQL, outcome = "ok"))
    /\ CASE outcome = "query" ->
              /\ HelperReturn([ err |-> ErrorfWrap("failed to get table names: %w",
                                                   CollaboratorError(FALSE, {})) ])
              /\ UNCHANGED hTables
         [] outcome = "scan" ->
              /\ order # <<>>
              /\ HelperReturn([ err |-> ErrorfWrap("failed to scan table name: %w",
                                                   CollaboratorError(FALSE, {})) ])
              /\ UNCHANGED hTables
         [] outcome = "rows" ->
              /\ HelperReturn([ err |-> ErrorfWrap("error iterating over table names: %w",
                                                   CollaboratorError(FALSE, {})) ])
              /\ UNCHANGED hTables
         [] OTHER ->
              /\ hTables' = order
              /\ IF order = <<>>
                   THEN HelperReturn([ err |-> NoError ])
                   ELSE pc' = "ca_exec" /\ UNCHANGED helperResult
    /\ UNCHANGED << db, databases, helper, hArgs, hIdx, before, lifecycleVars >>

\* Pool.Exec of the combined TRUNCATE.  ok: the statement reached the server
\* and the server was able to run it.
ExecTruncateStep(ok, prefix) ==
    LET sql == TruncateSQL(hTables)
        r   == ExecTruncate(db, sql)
        done == ok /\ r.ok
    IN  /\ issued' = Append(issued, Issue("Exec", sql, done))
        /\ db' = IF done THEN r.db ELSE db
        /\ HelperReturn([ err |-> IF done THEN NoError
                                  ELSE ErrorfWrap(prefix, CollaboratorError(FALSE, {})) ])

\* Variant of CleanAllTablesExec: one TRUNCATE per enumerated table.
CleanAllTablesExecEach(ok) ==
    LET sql  == TruncateSQL(<< hTables[hIdx] >>)
        r    == ExecTruncate(db, sql)
        done == ok /\ r.ok
    IN  /\ pc = "ca_exec"
        /\ issued' = Append(issued, Issue("Exec", sql, done))
        /\ db' = IF done THEN r.db ELSE db
        /\ IF ~done
             THEN /\ HelperReturn([ err |-> ErrorfWrap("failed to truncate tables: %w",
                                                       CollaboratorError(FALSE, {})) ])
                  /\ UNCHANGED hIdx
             ELSE IF hIdx = Len(hTables)
                    THEN HelperReturn([ err |-> NoError ]) /\ UNCHANGED hIdx
                    ELSE hIdx' = hIdx + 1 /\ UNCHANGED << pc, helperResult >>
        /\ UNCHANGED << databases, helper, hArgs, hTables, before, lifecycleVars >>

CleanAllTablesExec(ok) ==
    /\ pc = "ca_exec"
    /\ ExecTruncateStep(ok, "failed to truncate tables: %w")
    /\ UNCHANGED << databases, helper, hArgs, hIdx, hTables, before, lifecycleVars >>

\* fmt.Errorf(prefix, name, err) with the name as %s and the cause as %w: the
\* name is part of the message.
ErrorfWrapNamed(prefix, name, err) ==
    [ is |-> err.is, text |-> prefix, msg |-> PrefixMsg(prefix) \cup { name } \cup err.msg ]

\* Longest list of names passed to CleanSpecificTables.
MaxNames == 2

\* The names a test passes: names of tables that may exist and one that
\* never does.
InputNames == { t[2] : t \in TableUniverse } \cup { "nonexistent_table" }

NameLists == UNION { [ 1..n -> InputNames ] : n \in 0..MaxNames }

\* Without names the call is over at once.
CleanSpecificTablesEnter(tableNames, via) ==
    /\ HelperBegin("CleanSpecificTables", tableNames)
    /\ IF Len(tableNames) = 0
         THEN HelperReturnVia(via, [ err |-> NoError ])
         ELSE pc' = "cs_check" /\ helperResult' = NoResult

\* The caller calls CleanSpecificTables itself.
CleanSpecificTablesBegin(tableNames) ==
    /\ CleanSpecificTablesEnter(tableNames, "direct")
    /\ UNCHANGED << db, databases, lifecycleVars >>

\* Variant of CleanSpecificTablesCheck: every name is taken to exist.
CleanSpecificTablesCheckSkipped(ok) ==
    /\ pc = "cs_check"
    /\ issued' = Append(issued, Issue("QueryRow", ExistsSQL(hArgs[hIdx]), TRUE))
    /\ hTables' = Append(hTables, hArgs[hIdx])
    /\ hIdx' = hIdx + 1
    /\ pc' = IF hIdx = Len(hArgs) THEN "cs_exec" ELSE "cs_check"
    /\ UNCHANGED << db, databases, helper, hArgs, before, helperResult, lifecycleVars >>

\* One round of the existence loop: the lookup of the next name.  After the
\* last name the call is over when no name exists.
CleanSpecificTablesCheck(ok) ==
    /\ pc = "cs_check"
    /\ issued' = Append(issued, Issue("QueryRow", ExistsSQL(hArgs[hIdx]), ok))
    /\ IF ~ok
         THEN /\ HelperReturn([ err |-> ErrorfWrapNamed("failed to check if table %s exists: %w",
                                                        hArgs[hIdx],
                                                        CollaboratorError(FALSE, {})) ])
              /\ UNCHANGED << hTables, hIdx >>
         ELSE /\ hTables' = IF TableExistsQuery(db, hArgs[hIdx])
                              THEN Append(hTables, hArgs[hIdx])
                              ELSE hTables
              /\ hIdx' = hIdx + 1
              /\ IF hIdx < Len(hArgs)
                   THEN UNCHANGED << pc, helperResult >>
                   ELSE IF Len(hTables') > 0
                          THEN pc' = "cs_exec" /\ UNCHANGED helperResult
                          ELSE HelperReturn([ err |-> NoError ])
    /\ UNCHANGED << db, databases, helper, hArgs, before, lifecycleVars >>

CleanSpecificTablesExec(ok) ==
    /\ pc = "cs_exec"
    /\ ExecTruncateStep(ok, "failed to truncate specific tables: %w")
    /\ UNCHANGED << databases, helper, hArgs, hIdx, hTables, before, lifecycleVars >>

\* The names a test passes to NewTestDatabase.
DbNames == { "db2", "testdb", "TestDB" }

\* The empty string returned in place of a URL.
NoURL == <<>>

\* A handle has been returned; nothing but the configured database exists.
InitDatabases ==
    /\ \E c \in { NilConfig, MixedCaseConfig } :
         /\ ProvisionedWith(c)
         /\ databases = { "postgres", Effective(c).DatabaseName }
    /\ db = EmptyDatabase
    /\ HelperIdle

NewTestDatabaseBegin(dbName) ==
    /\ HelperBegin("NewTestDatabase", << dbName >>)
    /\ pc' = "nd_create"
    /\ helperResult' = NoResult
    /\ UNCHANGED << db, databases, lifecycleVars >>

\* Pool.Exec of CREATE DATABASE with the name written as given.  The server
\* creates the database it reads the name as, unless that database exists.
NewTestDatabaseCreate(ok) ==
    LET dbName == hArgs[1]
        done   == ok /\ Fold(dbName) \notin databases
    IN  /\ pc = "nd_create"
        /\ issued' = Append(issued, Issue("Exec", << "CREATE DATABASE ", dbName >>, done))
        /\ IF done
             THEN /\ databases' = databases \cup { Fold(dbName) }
                  /\ pc' = "nd_host"
                  /\ UNCHANGED helperResult
             ELSE /\ HelperReturn([ url |-> NoURL,
                                    err |-> ErrorfWrapNamed(
                                                "failed to create test database %s: %w",
                                                dbName,
                                                CollaboratorError(ctxCancelled, {})) ])
                  /\ UNCHANGED databases
        /\ UNCHANGED << db, helper, hArgs, hIdx, hTables, before, lifecycleVars >>

\* Container.Host: the host the container was reached at.
NewTestDatabaseHost(ok) ==
    /\ pc = "nd_host"
    /\ issued' = Append(issued, Issue("Host", <<>>, ok))
    /\ IF ok
         THEN /\ hTables' = << host >>
              /\ pc' = "nd_port"
              /\ UNCHANGED helperResult
         ELSE /\ HelperReturn([ url |-> NoURL,
                                err |-> ErrorfWrap("failed to get container host: %w",
                                                   CollaboratorError(ctxCancelled, {})) ])
              /\ UNCHANGED hTables
    /\ UNCHANGED << db, databases, helper, hArgs, hIdx, before, lifecycleVars >>

\* Variant of NewTestDatabasePort: on a failure the pool is closed.
NewTestDatabasePortClosing(ok) ==
    /\ pc = "nd_port"
    /\ issued' = Append(issued, Issue("MappedPort", <<>>, ok))
    /\ pool' = IF ok THEN pool ELSE "closed"
    /\ IF ok
         THEN HelperReturn([ url |-> DatabaseURLOf(tc.Username, tc.Password, hTables[1],
                                                   port, hArgs[1]),
                             err |-> NoError ])
         ELSE HelperReturn([ url |-> NoURL,
                             err |-> ErrorfWrap("failed to get container port: %w",
                                                CollaboratorError(ctxCancelled, {})) ])
    /\ UNCHANGED << db, databases, helper, hArgs, hIdx, hTables, before, osVars, wrapperVars,
                    callVars, ctxCancelled, provisionVars, container, pending, returnVars,
                    closeVars, log >>

\* Container.MappedPort and the URL of the new database.
NewTestDatabasePort(ok) ==
    /\ pc = "nd_port"
    /\ issued' = Append(issued, Issue("MappedPort", <<>>, ok))
    /\ IF ok
         THEN HelperReturn([ url |-> DatabaseURLOf(tc.Username, tc.Password, hTables[1],
                                                   port, hArgs[1]),
                             err |-> NoError ])
         ELSE HelperReturn([ url |-> NoURL,
                             err |-> ErrorfWrap("failed to get container port: %w",
                                                CollaboratorError(ctxCancelled, {})) ])
    /\ UNCHANGED << db, databases, helper, hArgs, hIdx, hTables, before, lifecycleVars >>

NextDatabases ==
    \/ Cancel
    \/ \E dbName \in DbNames : NewTestDatabaseBegin(dbName)
    \/ \E ok \in CtxOutcomes : NewTestDatabaseCreate(ok)
    \/ \E ok \in CtxOutcomes : NewTestDatabaseHost(ok)
    \/ \E ok \in CtxOutcomes : NewTestDatabasePort(ok)

SpecDatabases == InitDatabases /\ [][NextDatabases]_vars

\* A process starts with some environment and file system; a relative path
\* exists only when there is a working directory.
InitFind ==
    /\ Idle
    /\ environ \in EnvValues
    /\ fs \in FileSystems
    /\ callerFile = NoFile
    /\ sources \in [ user : UserStacks, lib : { LibraryFile } ]
    /\ getwdOk \in BOOLEAN
    /\ getwdOk \/ \A q \in FsPaths : q[2] = "work" => fs[q] = "absent"
    /\ dockerEnv = NoDockerEnv
    /\ skipResult = NoResult
    /\ foundPath = <<>>
    /\ walk = <<>>

\* A direct call of FindMigrationsPath.
CallFindMigrationsPath ==
    /\ pc = "idle"
    /\ callerFile' = RuntimeCaller(DirectStack(sources), 2)
    /\ foundPath' = FindMigrationsPath(environ, fs, callerFile', getwdOk).path
    /\ printed' = printed \o FindMigrationsPath(environ, fs, callerFile', getwdOk).printed
    /\ pc' = "found"
    /\ UNCHANGED << environ, fs, sources, getwdOk, walk, dockerEnv, skipResult, helperVars, wrapperVars,
                    callVars, ctxCancelled, provisionVars, container, pool, pending,
                    returnVars, closes, closeResult, closeVia, log >>

NextFind == CallFindMigrationsPath

SpecFind == InitFind /\ [][NextFind]_vars

\* The environments of a provisioning with migrations: MIGRATIONS_PATH unset
\* or naming /tmp/mig, a file system in which the repository may have a
\* .git directory and a migrations directory and /tmp/mig may exist, and a
\* test in a package directory of the repository that calls the library
\* itself or through a helper.
InitMigrate ==
    /\ Idle
    /\ environ \in { <<>>, << "/", "tmp", "mig" >> }
    /\ fs \in { f \in FileSystems :
                  \A q \in FsPaths :
                     IF q \in { << "/", "repo", ".git" >>, << "/", "repo", "migrations" >>,
                                << "/", "tmp", "mig" >> }
                       THEN f[q] \in { "absent", "dir" }
                       ELSE f[q] = "absent" }
    /\ callerFile = NoFile
    /\ sources \in [ user : { st \in UserStacks :
                                st[Len(st) - 1] = << "/", "repo", "pkg", "x_test.go" >> },
                     lib  : { LibraryFile } ]
    /\ getwdOk = TRUE
    /\ dockerEnv = NoDockerEnv
    /\ skipResult = NoResult
    /\ foundPath = <<>>
    /\ walk = <<>>

NextMigrate ==
    \/ CallFindMigrationsPath
    \/ \E p \in MigrationPaths : CallStartPostgreSQLContainerWithMigrations(p)
    \/ \E lookPath, info, images \in BOOLEAN : PreflightCheck(lookPath, info, images)
    \/ \E ok \in CtxOutcomes, m \in SUBSET Keywords : RunContainer(ok, m)
    \/ \E ok \in CtxOutcomes : GetHost(ok)
    \/ \E ok \in CtxOutcomes : GetMappedPort(ok)
    \/ ResolveMigrationsPath
    \/ \E ok \in BOOLEAN : AbsMigrationsPath(ok)
    \/ \E ok \in BOOLEAN : MigrateNew(ok)
    \/ \E outcome \in UpOutcomes, sourceOk, databaseOk \in BOOLEAN :
         MigrateUp(outcome, sourceOk, databaseOk)
    \/ \E ok \in BOOLEAN : ParseConfig(ok)
    \/ \E ok \in CtxOutcomes : NewWithConfig(ok)
    \/ \E ok \in CtxOutcomes : Ping(ok)
    \/ CleanupPoolClose
    \/ \E ok \in CtxOutcomes : CleanupTerminate(ok)

SpecMigrate == InitMigrate /\ [][NextMigrate]_vars

----------------------------------------------------------------------------
\* FindMigrationsPath, one round of its loop at a time.

\* The environments of a call followed step by step: MIGRATIONS_PATH unset,
\* naming /tmp/mig or naming nothing; a repository that may have a .git
\* directory and a migrations directory at its top and in its package
\* directory.
InitWalk ==
    /\ Idle
    /\ environ \in { <<>>, << "/", "tmp", "mig" >>, << "/", "nowhere" >> }
    /\ fs \in { f \in FileSystems :
                  \A q \in FsPaths :
                     IF q \in { << "/", "repo", ".git" >>, << "/", "repo", "pkg", ".git" >>,
                                << "/", "repo", "migrations" >>,
                                << "/", "repo", "pkg", "migrations" >>,
                                << "/", "tmp", "mig" >> }
                       THEN f[q] \in { "absent", "dir" }
                       ELSE f[q] = "absent" }
    /\ callerFile = NoFile
    /\ sources \in [ user : UserStacks, lib : { LibraryFile } ]
    /\ getwdOk = TRUE
    /\ dockerEnv = NoDockerEnv
    /\ skipResult = NoResult
    /\ foundPath = <<>>
    /\ walk = <<>>

\* fmt.Printf("Warning: MIGRATIONS_PATH set but invalid: %s\n", envPath), which
\* is reached only for a value that is set.
InvalidPathWarning(e) ==
    IF e # <<>>
      THEN << [ text |-> "Warning: MIGRATIONS_PATH set but invalid: %s", err |-> e ] >>
      ELSE <<>>

\* The call, up to the start of the loop: the override, the warning and
\* the caller's directory.
FindBegin ==
    LET file  == RuntimeCaller(DirectStack(sources), 2)
        valid == /\ environ # <<>>
                 /\ FilepathAbs(environ, getwdOk).ok
                 /\ IsDir(fs, FilepathAbs(environ, getwdOk).path)
    IN  /\ pc = "idle"
        /\ IF valid
             THEN /\ foundPath' = FilepathAbs(environ, getwdOk).path
                  /\ pc' = "found"
                  /\ UNCHANGED << callerFile, walk, printed >>
             ELSE /\ printed' = printed \o InvalidPathWarning(environ)
                  /\ callerFile' = file
                  /\ walk' = << Dir(file) >>
                  /\ pc' = "walk"
                  /\ UNCHANGED foundPath
        /\ UNCHANGED << environ, fs, sources, getwdOk, dockerEnv, skipResult, helperVars,
                        wrapperVars, callVars, ctxCancelled, provisionVars, container, pool,
                        pending, returnVars, closes, closeResult, closeVia, log >>

\* Variant of WalkStep: a directory with .git and without a conventional
\* subdirectory is passed over.
WalkStepPastBareRoot ==
    LET dir == walk[Len(walk)]
    IN  /\ pc = "walk"
        /\ IF /\ IsDir(fs, Join(dir, << ".git" >>))
              /\ FirstConventional(fs, dir, 1) # FallbackPath
             THEN /\ foundPath' = FirstConventional(fs, dir, 1)
                  /\ pc' = "found"
                  /\ UNCHANGED walk
             ELSE IF Dir(dir) = dir
               THEN /\ foundPath' = FallbackPath
                    /\ pc' = "found"
                    /\ UNCHANGED walk
               ELSE /\ walk' = Append(walk, Dir(dir))
                    /\ UNCHANGED << pc, foundPath >>
        /\ UNCHANGED << environ, fs, callerFile, sources, getwdOk, dockerEnv, skipResult,
                        helperVars, wrapperVars, callVars, ctxCancelled, provisionVars,
                        container, pool, pending, returnVars, closeVars, log >>

\* One round of the loop: the test for .git with the inner loop and the
\* break, the test for the root of the file system, or the step to the
\* parent.
WalkStep ==
    LET dir == walk[Len(walk)]
    IN  /\ pc = "walk"
        /\ IF IsDir(fs, Join(dir, << ".git" >>))
             THEN /\ foundPath' = FirstConventional(fs, dir, 1)
                  /\ pc' = "found"
                  /\ UNCHANGED walk
             ELSE IF Dir(dir) = dir
               THEN /\ foundPath' = FallbackPath
                    /\ pc' = "found"
                    /\ UNCHANGED walk
               ELSE /\ walk' = Append(walk, Dir(dir))
                    /\ UNCHANGED << pc, foundPath >>
        /\ UNCHANGED << environ, fs, callerFile, sources, getwdOk, dockerEnv, skipResult,
                        helperVars, wrapperVars, callVars, ctxCancelled, provisionVars,
                        container, pool, pending, returnVars, closeVars, log >>

NextWalk ==
    \/ FindBegin
    \/ WalkStep

\* The call runs once it has started.
SpecWalk == InitWalk /\ [][NextWalk]_vars /\ WF_vars(NextWalk)

NextTables ==
    \/ CleanAllTablesBegin
    \/ \E outcome \in { "ok", "query", "scan", "rows" } :
         \E order \in Orders(PgTablesQuery(db)) : CleanAllTablesQuery(outcome, order)
    \/ \E ok \in BOOLEAN : CleanAllTablesExec(ok)
    \/ \E tableNames \in NameLists : CleanSpecificTablesBegin(tableNames)
    \/ \E ok \in BOOLEAN : CleanSpecificTablesCheck(ok)
    \/ \E ok \in BOOLEAN : CleanSpecificTablesExec(ok)

SpecTables == InitTables /\ [][NextTables]_vars

----------------------------------------------------------------------------
\* CleanSpecificTables beside another client of the same database.

\* The tables of a database shared with another client.
SharedTables == { << "public", "t1" >>, << "public", "t2" >>, << "audit", "t1" >> }

\* The lists of names the call is given.
SharedLists ==
    { l \in NameLists : \A i \in DOMAIN l : l[i] \in { "t1", "t2", "nonexistent_table" } }

InitShared ==
    /\ Provisioned
    /\ db \in { d \in Databases : DOMAIN d.rows \subseteq SharedTables }
    /\ databases = { "postgres", DefaultPostgreSQLConfig.DatabaseName }
    /\ HelperIdle

\* DROP TABLE t CASCADE issued by another client while the call is between
\* two of its statements: the table goes, with the foreign keys on it.
DropTable(t) ==
    /\ pc \in { "cs_check", "cs_exec" }
    /\ t \in DOMAIN db.rows
    /\ db' = [ rows |-> [ u \in DOMAIN db.rows \ { t } |-> db.rows[u] ],
               fk   |-> { e \in db.fk : e[1] # t /\ e[2] # t } ]
    /\ UNCHANGED << pc, databases, helper, hArgs, hIdx, hTables, issued, before,
                    helperResult, lifecycleVars >>

NextShared ==
    \/ \E tableNames \in SharedLists : CleanSpecificTablesBegin(tableNames)
    \/ \E ok \in BOOLEAN : CleanSpecificTablesCheck(ok)
    \/ \E ok \in BOOLEAN : CleanSpecificTablesExec(ok)
    \/ \E t \in SharedTables : DropTable(t)

SpecShared == InitShared /\ [][NextShared]_vars

----------------------------------------------------------------------------
\* WithCleanup and WithTableCleanup.

MaxCleanupCalls == 1

\* The names the caller passes to WithTableCleanup, and the lists of them.
CleanupNames == { "t1", "nonexistent_table" }

CleanupLists == UNION { [ 1..n -> CleanupNames ] : n \in 0..MaxNames }

\* The names the caller stores into its slice after it made the callable.
WrittenNames == { "t2" }

\* A handle from a successful provisioning, and tables t1 and t2 at most.
InitCleanup ==
    /\ InitTables
    /\ \A t \in DOMAIN db.rows : t \in { << "public", "t1" >>, << "public", "t2" >> }

\* tc.WithTableCleanup(tables...).  The parameter is the slice the closure
\* keeps.  Called with a list of arguments it is a slice made for the call;
\* called with a slice and "..." (spread) it is the caller's slice itself.
WithTableCleanup(tables, spread) ==
    /\ pc = "returned"
    /\ tc # NilHandle
    /\ ~cleanup.made
    /\ cleanup' = [ made |-> TRUE, given |-> tables, shared |-> spread,
                    calls |-> 0, failed |-> 0 ]
    /\ callerTables' = IF spread THEN tables ELSE <<>>
    /\ UNCHANGED << pc, helperVia, helperVars, osVars, callVars, ctxCancelled, provisionVars,
                    container, pool, pending, returnVars, closeVars, log >>

\* The caller stores a name into an element of the slice it passed.
CallerWritesTable(i, name) ==
    /\ pc = "returned"
    /\ cleanup.made
    /\ cleanup.shared
    /\ i \in DOMAIN callerTables
    /\ callerTables[i] # name
    /\ callerTables' = [ callerTables EXCEPT ![i] = name ]
    /\ UNCHANGED << pc, helperVia, cleanup, helperVars, osVars, callVars, ctxCancelled,
                    provisionVars, container, pool, pending, returnVars, closeVars, log >>

\* The elements of the closure's slice when the callable runs.
CapturedTables == IF cleanup.shared THEN callerTables ELSE cleanup.given

\* "Warning: failed to clean tables: %v\n"
TableCleanupWarning(r) ==
    IF r.err # NoError
      THEN << [ text |-> "Warning: failed to clean tables: %v", err |-> r.err ] >>
      ELSE <<>>

\* The callable is invoked: tc.CleanSpecificTables(tc.Context, tables...).
TableCleanupCall ==
    /\ cleanup.made
    /\ cleanup.calls < MaxCleanupCalls
    /\ helperVia' = "WithTableCleanup"
    /\ CleanSpecificTablesEnter(CapturedTables, "WithTableCleanup")
    /\ UNCHANGED << cleanup, callerTables, db, databases, osVars, callVars, ctxCancelled,
                    provisionVars, container, pool, pending, returnVars, closeVars, log >>

\* CleanSpecificTables has returned to the callable, which prints the error
\* and returns nothing.
TableCleanupDone ==
    /\ pc = "tc_done"
    /\ printed' = printed \o TableCleanupWarning(helperResult)
    /\ cleanup' = [ cleanup EXCEPT !.calls = @ + 1,
                                   !.failed = @ + IF helperResult.err # NoError THEN 1 ELSE 0 ]
    /\ helperVia' = "direct"
    /\ pc' = "returned"
    /\ UNCHANGED << callerTables, helperVars, osVars, callVars, ctxCancelled, provisionVars,
                    container, pool, pending, returnVars, closes, closeResult, closeVia, log >>

\* GetConnectionString, GetPool and GetContainer return a field of the
\* handle.
Accessors == { "GetConnectionString", "GetPool", "GetContainer" }

AccessorValue(name) ==
    IF name = "GetConnectionString" THEN tc.DatabaseURL
    ELSE IF name = "GetPool" THEN tc.Pool
    ELSE tc.Container

CallAccessor(name) ==
    /\ HelperBegin(name, <<>>)
    /\ HelperReturnVia("direct", [ value |-> AccessorValue(name) ])
    /\ UNCHANGED << db, databases, lifecycleVars >>

\* The lists of names passed to CleanSpecificTables and WithTableCleanup
\* when every operation is in use.
HelperLists == { <<>>, << "t1" >>, << "t2", "nonexistent_table" >> }

\* Every operation of a handle other than Close and the callable of
\* WithCleanup, in any order.
NextHelpers ==
    \/ CleanAllTablesBegin
    \/ \E outcome \in { "ok", "query", "scan", "rows" } :
         \E order \in Orders(PgTablesQuery(db)) : CleanAllTablesQuery(outcome, order)
    \/ \E ok \in BOOLEAN : CleanAllTablesExec(ok)
    \/ \E tableNames \in HelperLists : CleanSpecificTablesBegin(tableNames)
    \/ \E ok \in BOOLEAN : CleanSpecificTablesCheck(ok)
    \/ \E ok \in BOOLEAN : CleanSpecificTablesExec(ok)
    \/ \E dbName \in DbNames : NewTestDatabaseBegin(dbName)
    \/ \E ok \in CtxOutcomes : NewTestDatabaseCreate(ok)
    \/ \E ok \in CtxOutcomes : NewTestDatabaseHost(ok)
    \/ \E ok \in CtxOutcomes : NewTestDatabasePort(ok)
    \/ \E tables \in HelperLists, spread \in BOOLEAN : WithTableCleanup(tables, spread)
    \/ TableCleanupCall
    \/ TableCleanupDone
    \/ \E name \in Accessors : CallAccessor(name)

SpecHelpers == InitCleanup /\ [][NextHelpers]_vars

NextCleanup ==
    \/ \E tables \in CleanupLists, spread \in BOOLEAN : WithTableCleanup(tables, spread)
    \/ \E i \in 1..MaxNames, name \in WrittenNames : CallerWritesTable(i, name)
    \/ TableCleanupCall
    \/ \E ok \in BOOLEAN : CleanSpecificTablesCheck(ok)
    \/ \E ok \in BOOLEAN : CleanSpecificTablesExec(ok)
    \/ TableCleanupDone
    \/ CloseBegin("WithCleanup")
    \/ ClosePool
    \/ \E ok \in CtxOutcomes : CloseTerminate(ok)

SpecCleanup == InitCleanup /\ [][NextCleanup]_vars

----------------------------------------------------------------------------
\* Vocabulary of the properties.

Returned == pc = "returned"

Failed == result.err # NoError

\* Positions of the log at which op was invoked.
Calls(op) == { i \in DOMAIN log : log[i].op = op }

Invoked(op) == Calls(op) # {}

\* Positions at which op was invoked and ended with the given outcome.
CallsWith(op, outcome) == { i \in Calls(op) : log[i].outcome = outcome }

LastOp == log[Len(log)]

MigrationOps == { "FindMigrationsPath", "filepath.Abs", "migrate.New", "m.Up", "m.Close" }

PoolOps == { "pgxpool.ParseConfig", "pgxpool.NewWithConfig", "pool.Ping", "pool.Close" }

PreflightOps == { "exec.LookPath", "docker info", "docker images" }

\* The migration runner failed: one of its fallible steps returned an error.
MigrationRunnerFailed ==
    \E op \in { "filepath.Abs", "migrate.New", "m.Up" } : CallsWith(op, "error") # {}

PoolSetupFailed ==
    \E op \in { "pgxpool.ParseConfig", "pgxpool.NewWithConfig" } : CallsWith(op, "error") # {}

PingFailed == CallsWith("pool.Ping", "error") # {}

MatchesNoSentinel(err) == \A s \in Sentinels : ~ErrorsIs(err, s)

\* A well-formed return value: a handle and no error, or an error and no handle.
HandleXorError(r) ==
    \/ r.handle # NilHandle /\ r.err = NoError
    \/ r.handle = NilHandle /\ r.err # NoError

----------------------------------------------------------------------------
\* C1: whenever the container start succeeded and the call returns an error,
\* Terminate has been invoked on the container before the return.
C1_TerminateOnEveryFailure ==
    (Returned /\ Failed /\ CallsWith("postgres.Run", "ok") # {}) => Invoked("Terminate")

\* C2: every entry point returns either a handle with a nil error or a nil
\* handle with an error, never both and never neither; so does the underlying
\* StartPostgreSQLContainer whenever it ran.
C2_HandleXorError ==
    Returned =>
        /\ HandleXorError(result)
        /\ startResult # NoResult => HandleXorError(startResult)

C2_Witness ==
    /\ Returned
    /\ entry = "StartPostgreSQLContainerWithMigrations"
    /\ PingFailed
    /\ result.handle = NilHandle

\* C3: a returned handle's pool was pinged successfully after it was
\* constructed, and at the return the pool is not closed and the container
\* not terminated.
C3_HandleIsLive ==
    (Returned /\ result.handle # NilHandle) =>
        /\ \E i \in CallsWith("pgxpool.NewWithConfig", "ok") :
              \E j \in CallsWith("pool.Ping", "ok") : i < j
        /\ pool = "open"
        /\ container = "running"
        /\ ~Invoked("pool.Close")
        /\ ~Invoked("Terminate")

C3_Witness ==
    /\ Returned
    /\ result.handle # NilHandle
    /\ LastOp.op = "pool.Ping"

C7_StartFailureClassified ==
    (Returned /\ CallsWith("postgres.Run", "error") # {}) =>
        LET e == LastOp.err IN
        /\ LastOp.op = "postgres.Run"
        /\ result.handle = NilHandle
        /\ Failed
        /\ IF Contains(e, "timeout")
             THEN result.err.is = { ErrContainerStartTimeout }
           ELSE IF Contains(e, "port") /\ Contains(e, "already in use")
             THEN result.err.is = { ErrContainerPortConflict }
           ELSE /\ ~ErrorsIs(result.err, ErrContainerStartTimeout)
                /\ ~ErrorsIs(result.err, ErrContainerPortConflict)
                /\ result.err.text = "failed to start PostgreSQL container: %w"
        /\ \A i \in DOMAIN log : log[i].op \in PreflightOps \cup { "postgres.Run" }
        /\ container = "none"
        /\ pool = "none"

C7_Witness ==
    /\ Returned
    /\ LastOp.op = "postgres.Run"
    /\ LastOp.err.msg = { "port", "already in use" }
    /\ ErrorsIs(result.err, ErrContainerPortConflict)

CheckedEntry == entry \in EntryPoints \ { "StartPostgreSQLContainer" }

\* C8: StartPostgreSQLContainerWithCheck runs the preflight check before
\* anything else; when Docker is unavailable it returns a nil handle and
\* ErrDockerNotAvailable without invoking the container start; when Docker is
\* available it calls StartPostgreSQLContainer with its own arguments and
\* returns that call's result.
C8_PreflightGuardsStart ==
    CheckedEntry =>
        /\ log # <<>> => log[1].op = "exec.LookPath"
        /\ \A i \in DOMAIN log :
              log[i].op \notin PreflightOps =>
                  /\ i > 3
                  /\ \A j \in 1..3 : log[j].op \in PreflightOps /\ log[j].outcome = "ok"
        /\ (dockerStatus # NoDockerStatus /\ ~dockerStatus.Available) =>
              /\ Returned
              /\ result.handle = NilHandle
              /\ result.err.is = { ErrDockerNotAvailable }
              /\ startResult = NoResult
              /\ ~Invoked("postgres.Run")
              /\ container = "none" /\ pool = "none"
        /\ (dockerStatus # NoDockerStatus /\ dockerStatus.Available) =>
              /\ configIn = arg
              /\ Returned => (result = startResult /\ startResult # NoResult)

C8_Witness ==
    /\ entry = "StartPostgreSQLContainerWithCheck"
    /\ Returned
    /\ dockerStatus.Available
    /\ result.handle # NilHandle

\* C9: a call of StartPostgreSQLContainer made with an already cancelled
\* context returns a nil handle and an error that matches context.Canceled.
C9_PreCancelledMatchesCanceled ==
    (Returned /\ entry = "StartPostgreSQLContainer" /\ cancelledAtCall) =>
        /\ result.handle = NilHandle
        /\ Failed
        /\ ErrorsIs(result.err, "context.Canceled")

\* C10: Close closes the pool first and then attempts the terminate, whatever
\* the state the pool was in; a terminate failure comes back inside one
\* aggregated error, a successful terminate gives a nil error.
C10_CloseOrderAndResult ==
    /\ (pc = "close_term" /\ tc.Pool # "nil") => LastOp.op = "pool.Close"
    /\ (pc = "closed" /\ tc.Pool # "nil" /\ tc.Container # "nil") =>
          /\ Len(log) >= 2
          /\ log[Len(log) - 1].op = "pool.Close"
          /\ LastOp.op = "Terminate"
          /\ Cardinality(Calls("Terminate")) = closes
          /\ Cardinality(Calls("pool.Close")) = closes
          /\ pool = "closed"
          /\ (LastOp.outcome = "ok" <=> closeResult.err = NoError)
          /\ LastOp.outcome = "error" =>
                /\ closeResult.err.text = "cleanup errors: %v"
                /\ Len(closeResult.err.errs) = 1
                /\ closeResult.err.errs[1].text = "failed to terminate container: %w"
                /\ closeResult.err.errs[1].is = LastOp.err.is

C10_Witness ==
    /\ pc = "closed"
    /\ closes = 2
    /\ entry = "StartPostgreSQLContainerWithCheck"
    /\ LastOp.outcome = "error"
    /\ closeResult.err # NoError

\* C11: Close, called directly or through the WithCleanup callable, on a
\* handle whose pool or container reference is nil does not fault, invokes
\* nothing on the missing collaborator, and returns nil (printing nothing)
\* when both are nil.
C11_CloseOnNilReferences ==
    /\ pc # "panic"
    /\ (tc # NilHandle /\ tc.Pool = "nil") => (~Invoked("pool.Close") /\ pool = "none")
    /\ (tc # NilHandle /\ tc.Container = "nil") =>
          (~Invoked("Terminate") /\ container = "none")
    /\ (pc = "closed" /\ tc.Pool = "nil" /\ tc.Container = "nil") =>
          /\ closeResult.err = NoError
          /\ printed = <<>>
          /\ log = <<>>

C11_Witness ==
    /\ pc = "closed"
    /\ closeVia = "WithCleanup"
    /\ tc.Pool = "nil"
    /\ tc.Container = "nil"
    /\ closeResult.err = NoError

\* C12: a second or later Close on the same handle does not fault; it closes
\* the already closed pool and terminates the container again, returns nil
\* or the aggregated error, and starts or acquires nothing: the pool stays
\* closed and a terminated container stays terminated.
C12_CloseAgain ==
    /\ pc # "panic"
    /\ (pc = "closed" /\ closes >= 2 /\ pool # "none" /\ container # "none") =>
          /\ Len(log) >= 4
          /\ log[Len(log) - 3].op = "pool.Close"
          /\ log[Len(log) - 2].op = "Terminate"
          /\ log[Len(log) - 1].op = "pool.Close"
          /\ LastOp.op = "Terminate"
          /\ pool = "closed"
          /\ CallsWith("Terminate", "ok") # {} => container = "terminated"
          /\ closeResult.err = NoError \/ closeResult.err.text = "cleanup errors: %v"
          /\ \A i \in DOMAIN log :
                (\E j \in Calls("pool.Close") : j < i) =>
                    log[i].op \in { "pool.Close", "Terminate" }

C12_Witness ==
    /\ pc = "closed"
    /\ closes = 2
    /\ entry = "StartPostgreSQLContainer"
    /\ log[Len(log) - 2].outcome = "ok"
    /\ closeResult.err # NoError

----------------------------------------------------------------------------
\* Table cleanup.

\* A call of the named helper has returned.
HelperReturned(name) == pc = "returned" /\ helper = name /\ helperResult # NoResult

HelperOk(name) == HelperReturned(name) /\ helperResult.err = NoError

PublicTables(d) == { t \in DOMAIN d.rows : t[1] = "public" }

\* Positions of issued at which a statement was executed.
Execs == { i \in DOMAIN issued : issued[i].op = "Exec" }

\* C13: after CleanAllTables returns nil, every table of the public schema
\* that is not denylisted still exists and has zero rows, whatever it held
\* before, and every denylisted table has the rows it had.
C13_CleanAllTablesEmptiesPublic ==
    HelperOk("CleanAllTables") =>
        /\ DOMAIN db.rows = DOMAIN before.rows
        /\ \A t \in PublicTables(before) :
             IF t[2] \in Denylist
               THEN db.rows[t] = before.rows[t]
               ELSE db.rows[t] = 0

\* The table names written in a TRUNCATE statement text.
NamesIn(sql) == { sql[i] : i \in { j \in 2..(Len(sql) - 1) : j % 2 = 0 } }

IsCascadingTruncate(sql) ==
    /\ Len(sql) >= 3
    /\ sql[1] = "TRUNCATE "
    /\ sql[Len(sql)] = " CASCADE"

\* The enumeration of the running CleanAllTables call has delivered its rows.
Enumerated == issued # <<>> /\ issued[1] = Issue("Query", EnumerateSQL, TRUE)

\* C14: a CleanAllTables call executes at most one statement.  Once tables
\* have been enumerated, a return is preceded by exactly one cascading
\* TRUNCATE naming all of them; with none enumerated nothing is executed and
\* nil is returned.
C14_CleanAllTablesOneStatement ==
    helper = "CleanAllTables" =>
        /\ Cardinality(Execs) <= 1
        /\ \A i \in Execs :
             /\ IsCascadingTruncate(issued[i].sql)
             /\ NamesIn(issued[i].sql) = PgTablesQuery(before)
             /\ Len(issued[i].sql) = 2 * Cardinality(PgTablesQuery(before)) + 1
        /\ (HelperReturned("CleanAllTables") /\ Enumerated) =>
             IF PgTablesQuery(before) = {}
               THEN Execs = {} /\ helperResult.err = NoError
               ELSE Execs = { Len(issued) }

C14_Witness ==
    /\ HelperOk("CleanAllTables")
    /\ Cardinality(PgTablesQuery(before)) >= 2
    /\ \E t \in DOMAIN before.rows : t[2] \in PgTablesQuery(before) /\ before.rows[t] > 0
    /\ Execs = { 2 }

\* The existing tables the arguments of the call name.
NamedTables == { t \in PublicTables(before) : \E i \in DOMAIN hArgs : hArgs[i] = t[2] }

\* C15: after CleanSpecificTables(ctx, names...) returns nil, every existing
\* table named in names has zero rows, and every table that is not named and
\* does not reference a named table, directly or through other tables, has
\* the rows it had before the call.
C15_CleanSpecificTablesFrame ==
    HelperOk("CleanSpecificTables") =>
        /\ DOMAIN db.rows = DOMAIN before.rows
        /\ \A t \in NamedTables : db.rows[t] = 0
        /\ \A t \in DOMAIN before.rows \ Cascade(before, NamedTables) :
             db.rows[t] = before.rows[t]

\* The arguments of the call that name a table the lookup finds.
ExistingInputs == SelectSeq(hArgs, LAMBDA n : TableExistsQuery(before, n))

\* Every operation the call has issued succeeded.
NoOperationFailed == \A i \in DOMAIN issued : issued[i].outcome = "ok"

\* C16: CleanSpecificTables skips the names that do not exist: they are not
\* in the TRUNCATE and raise no error.  The one cascading TRUNCATE names
\* exactly the input names found to exist; when none exists, or no name was
\* given, nothing is executed and nil is returned.
C16_CleanSpecificTablesSkipsMissing ==
    helper = "CleanSpecificTables" =>
        /\ Cardinality(Execs) <= 1
        /\ \A i \in Execs :
             /\ IsCascadingTruncate(issued[i].sql)
             /\ NamesIn(issued[i].sql) = { ExistingInputs[k] : k \in DOMAIN ExistingInputs }
             /\ Len(issued[i].sql) = 2 * Len(ExistingInputs) + 1
        /\ HelperReturned("CleanSpecificTables") =>
             /\ helperResult.err # NoError => ~NoOperationFailed
             /\ NoOperationFailed =>
                  IF ExistingInputs = <<>> THEN Execs = {} ELSE Execs = { Len(issued) }

C16_Witness ==
    /\ HelperOk("CleanSpecificTables")
    /\ Len(hArgs) = 2
    /\ hArgs[1] = "nonexistent_table"
    /\ Len(ExistingInputs) = 1
    /\ Execs = { 3 }
    /\ issued[3].sql = << "TRUNCATE ", hArgs[2], " CASCADE" >>

----------------------------------------------------------------------------
\* NewTestDatabase.

\* The pieces of a connection URL built by DatabaseURLOf.
URLUser(u) == u[2]

URLPassword(u) == u[4]

URLHost(u) == u[6]

URLPort(u) == u[8]

URLDatabase(u) == u[10]

\* strings.Contains(url, name) for a name that is one piece of the URL.
URLContains(u, name) == \E i \in DOMAIN u : u[i] = name

\* C17: when NewTestDatabase(name) succeeds, the URL it returns is the
\* handle's connection URL with name as its database, it contains name and
\* differs from GetConnectionString(); no pool or handle is created and the
\* handle's DatabaseURL, Pool and Container are unchanged.
C17_NewTestDatabaseURL ==
    HelperOk("NewTestDatabase") =>
        /\ helperResult.url = [ tc.DatabaseURL EXCEPT ![10] = hArgs[1] ]
        /\ URLContains(helperResult.url, hArgs[1])
        /\ helperResult.url # tc.DatabaseURL
        /\ tc \in { HandleFor(NilConfig), HandleFor(MixedCaseConfig) }
        /\ pool = "open"
        /\ container = "running"
        /\ log = << Done("postgres.Run"), Done("Host"), Done("MappedPort"),
                    Done("pgxpool.ParseConfig"), Done("pgxpool.NewWithConfig"),
                    Done("pool.Ping") >>

\* C18: every error NewTestDatabase(name) returns, whichever step failed,
\* carries name in its message and comes with an empty URL.
C18_NewTestDatabaseErrorsNameDatabase ==
    (HelperReturned("NewTestDatabase") /\ helperResult.err # NoError) =>
        /\ Contains(helperResult.err, hArgs[1])
        /\ helperResult.url = NoURL

----------------------------------------------------------------------------
\* FindMigrationsPath.

\* The absolute form of a path: the path itself, or the path under the
\* working directory, without "." and ".." components.
AbsoluteForm(q) == Clean((IF IsAbs(q) THEN <<>> ELSE WorkingDir) \o q)

\* MIGRATIONS_PATH is set and names an existing directory.
EnvNamesDirectory ==
    /\ environ # <<>>
    /\ IsAbs(environ) \/ getwdOk
    /\ IsDir(fs, AbsoluteForm(environ))

StartDir == Dir(callerFile)

\* A directory and the directories above it.
RECURSIVE Ancestors(_)
Ancestors(d) == { d } \cup (IF Dir(d) = d THEN {} ELSE Ancestors(Dir(d)))

\* The ancestors of the starting directory that contain a .git directory.
Roots == { d \in Ancestors(StartDir) : IsDir(fs, Join(d, << ".git" >>)) }

\* The nearest of them.
RepoRoot == CHOOSE d \in Roots : \A e \in Roots : e \in Ancestors(d)

\* The conventional subdirectories in the order the claim gives.
ClaimedOrder ==
    << << "database", "migrations" >>, << "migrations" >>,
       << "sql", "migrations" >>, << "db", "migrations" >> >>

\* The positions of ClaimedOrder that are directories under the root.
DirectoriesAtRoot == { i \in DOMAIN ClaimedOrder : IsDir(fs, Join(RepoRoot, ClaimedOrder[i])) }

C22_FallbackExactlyWhenNothingFound ==
    (pc = "found" /\ ~EnvNamesDirectory) =>
        /\ foundPath = << "database", "migrations" >>
             <=> (Roots = {} \/ DirectoriesAtRoot = {})
        /\ foundPath # << "database", "migrations" >> =>
             IsAbs(foundPath) /\ IsDir(fs, foundPath)

----------------------------------------------------------------------------
\* Defaults.

\* The documented default configuration, durations in seconds.
DocumentedDefault ==
    [ DatabaseName      |-> "testdb",
      Username          |-> "testuser",
      Password          |-> "testpass",
      PostgreSQLVersion |-> "16-3.4",
      MaxConns          |-> 10,
      MinConns          |-> 2,
      MaxConnLife       |-> 1800,
      MaxConnIdle       |-> 300,
      StartupTimeout    |-> 30,
      RunMigrations     |-> FALSE,
      MigrationsPath    |-> <<>> ]

DocumentedURL ==
    << "postgres://", "testuser", ":", "testpass", "@", host, ":", port, "/", "testdb",
       "?sslmode=disable" >>

\* C23: a call with a nil config and a call with the documented default
\* configuration work with the same values: the same arguments reach the
\* container start and the pool construction, no migration operation is
\* invoked, and the same handle is returned.
C23_NilConfigIsDefault ==
    (configIn \in { NilConfig, DefaultPostgreSQLConfig } /\ Invoked("postgres.Run")) =>
        /\ config = DocumentedDefault
        /\ runArgs = << << "postgis/postgis:", "16-3.4" >>, "testdb", "testuser", "testpass",
                        "database system is ready to accept connections", 2, 30 >>
        /\ \A i \in DOMAIN log : log[i].op \notin MigrationOps
        /\ Invoked("pgxpool.ParseConfig") => databaseURL = DocumentedURL
        /\ Invoked("pgxpool.NewWithConfig") =>
             poolConfig = [ ConnString      |-> DocumentedURL,
                            MaxConns        |-> 10,
                            MinConns        |-> 2,
                            MaxConnLifetime |-> 1800,
                            MaxConnIdleTime |-> 300 ]
        /\ (Returned /\ ~Failed) =>
             result.handle = [ Container    |-> "pgContainer",
                               Pool         |-> "pool",
                               DatabaseURL  |-> DocumentedURL,
                               Context      |-> "ctx",
                               DatabaseName |-> "testdb",
                               Username     |-> "testuser",
                               Password     |-> "testpass" ]

C23_Witness ==
    /\ Returned
    /\ ~Failed
    /\ entry = "StartPostgreSQLContainer"
    /\ arg = NilConfig
    /\ config = DocumentedDefault
    /\ LastOp.op = "pool.Ping"

----------------------------------------------------------------------------
\* Preflight check.

\* The diagnostic steps in the order the claim gives, and the reason that
\* names each.
DiagnosticOrder == << "exec.LookPath", "docker info", "docker images" >>

DiagnosticReason ==
    << "Docker command not found in PATH",
       "Docker daemon is not running or accessible",
       "Docker is running but images command failed" >>

\* Whether step i succeeds in environment e.
StepSucceeds(e, i) == << e.lookPath, e.info, e.images >>[i]

\* The first step that fails in e; 0 when none does.
FirstFailure(e) ==
    IF \A i \in 1..3 : StepSucceeds(e, i) THEN 0
    ELSE CHOOSE i \in 1..3 : ~StepSucceeds(e, i) /\ \A j \in 1..(i - 1) : StepSucceeds(e, j)

\* The number of steps a check runs in e.
StepsRun(e) == IF FirstFailure(e) = 0 THEN 3 ELSE FirstFailure(e)

\* A check in environment e returned status: it ran the steps in order up
\* to the first failing one and its reason names that one.
OrderedAndShortCircuit(e, status) ==
    /\ status.steps = SubSeq(DiagnosticOrder, 1, StepsRun(e))
    /\ FirstFailure(e) # 0 => status.Reason = DiagnosticReason[FirstFailure(e)]

\* C24: CheckDockerAvailability runs executable lookup, daemon status and
\* image listing in that order and stops at the first failing step; no later
\* step runs after a failure and the reason names the first failing step.
C24_DiagnosticsInOrder ==
    /\ skipResult # NoResult => OrderedAndShortCircuit(skipResult.env, skipResult.status)
    /\ dockerStatus # NoDockerStatus =>
         /\ OrderedAndShortCircuit(dockerEnv, dockerStatus)
         /\ Len(log) >= StepsRun(dockerEnv)
         /\ \A i \in 1..StepsRun(dockerEnv) :
              /\ log[i].op = DiagnosticOrder[i]
              /\ log[i].outcome = IF i = FirstFailure(dockerEnv) THEN "error" ELSE "ok"
         /\ \A i \in DOMAIN log : i > StepsRun(dockerEnv) => log[i].op \notin PreflightOps

C24_Witness ==
    /\ dockerStatus # NoDockerStatus
    /\ dockerEnv = DockerEnv(TRUE, FALSE, FALSE)
    /\ dockerStatus.steps = << "exec.LookPath", "docker info" >>
    /\ dockerStatus.Reason = "Docker daemon is not running or accessible"
    /\ Len(log) = 2

\* What the claim says of one result of a check made in environment e.
WellFormedResult(e, status) ==
    /\ status.Available <=> (e.lookPath /\ e.info /\ e.images)
    /\ status.Available =>
         status.Reason = "Docker is available and running" /\ status.Error = "nil"
    /\ ~status.Available => status.Reason # "" /\ status.Error # "nil"

\* C25: a result of CheckDockerAvailability has Available true exactly when
\* all three steps succeeded, with the fixed reason and a nil Error; when
\* Available is false the reason is non-empty and Error is not nil.  Two
\* checks made in the same environment return equal results.
C25_ResultWellFormed ==
    /\ dockerStatus # NoDockerStatus => WellFormedResult(dockerEnv, dockerStatus)
    /\ skipResult # NoResult => WellFormedResult(skipResult.env, skipResult.status)
    /\ (dockerStatus # NoDockerStatus /\ skipResult # NoResult /\ skipResult.env = dockerEnv)
         => skipResult.status = dockerStatus

C25_Witness ==
    /\ dockerStatus # NoDockerStatus
    /\ skipResult # NoResult
    /\ skipResult.env = dockerEnv
    /\ dockerEnv = DockerEnv(TRUE, TRUE, FALSE)
    /\ ~dockerStatus.Available
    /\ dockerStatus.Error # "nil"

\* C26: SkipIfDockerUnavailable returns shouldSkip = true exactly when the
\* check reports unavailable, and a non-empty message exactly when
\* shouldSkip is true.
C26_SkipExactlyWhenUnavailable ==
    skipResult # NoResult =>
        /\ skipResult.shouldSkip <=> ~skipResult.status.Available
        /\ skipResult.shouldSkip <=>
             ~(skipResult.env.lookPath /\ skipResult.env.info /\ skipResult.env.images)
        /\ skipResult.message # <<>> <=> skipResult.shouldSkip

C26_Witness ==
    /\ skipResult # NoResult
    /\ skipResult.env = DockerEnv(TRUE, TRUE, TRUE)
    /\ ~skipResult.shouldSkip
    /\ skipResult.message = <<>>

----------------------------------------------------------------------------
\* Migrations and the order of provisioning.

\* C27: with migrations disabled no migration operation, the path resolver
\* included, is invoked and provisioning creates no schema_migrations
\* table; with migrations enabled a handle is returned only after Up ended
\* successfully or with no change.
C27_MigrationsOnlyWhenEnabled ==
    /\ (Invoked("postgres.Run") /\ ~config.RunMigrations) =>
         /\ \A i \in DOMAIN log : log[i].op \notin MigrationOps
         /\ MigrationsTable \notin DOMAIN db.rows
    /\ (Returned /\ ~Failed /\ config.RunMigrations) =>
         /\ Cardinality(Calls("m.Up")) = 1
         /\ \A i \in Calls("m.Up") : log[i].outcome \in { "ok", "ErrNoChange" }
         /\ MigrationsTable \in DOMAIN db.rows

C27_Witness ==
    /\ Returned
    /\ ~Failed
    /\ config.RunMigrations
    /\ CallsWith("m.Up", "ok") # {}
    /\ MigrationsTable \in DOMAIN db.rows
    /\ db.rows[MigrationsTable] = 1

\* The warnings the callable of WithTableCleanup has printed.
TableWarnings ==
    SelectSeq(printed, LAMBDA w : w.text = "Warning: failed to clean tables: %v")

\* The warnings the callable of WithCleanup has printed.
ContainerWarnings ==
    SelectSeq(printed, LAMBDA w : w.text = "Warning: failed to cleanup PostgreSQL container: %v")

\* The callable of WithCleanup has returned: the pool was closed, then the
\* container was asked to terminate, and an error of Close was printed.
FullTeardownLogged ==
    /\ Len(log) >= 2
    /\ log[Len(log) - 1].op = "pool.Close"
    /\ LastOp.op = "Terminate"
    /\ pool = "closed"
    /\ LastOp.outcome = "ok" => container = "terminated"
    /\ closeResult.err # NoError =>
         /\ ContainerWarnings # <<>>
         /\ ContainerWarnings[Len(ContainerWarnings)].err = closeResult.err
    /\ closeResult.err = NoError <=> LastOp.outcome = "ok"

\* C28: the callable of WithCleanup closes the pool and then terminates the
\* container; the callable of WithTableCleanup calls CleanSpecificTables
\* with the names WithTableCleanup was given, whatever the caller has done
\* since; both print the error of the operation and return normally.
C28_CleanupCallables ==
    /\ pc # "panic"
    /\ (pc = "closed" /\ closeVia = "WithCleanup") => FullTeardownLogged
    /\ (helperVia = "WithTableCleanup" \/ pc = "tc_done") =>
         /\ helper = "CleanSpecificTables"
         /\ hArgs = cleanup.given
    /\ (cleanup.made /\ pc = "returned") =>
         /\ Len(TableWarnings) = cleanup.failed
         /\ (cleanup.calls > 0 /\ helperResult.err # NoError) =>
              /\ TableWarnings # <<>>
              /\ TableWarnings[Len(TableWarnings)].err = helperResult.err

\* The same with the caller's slice left alone.
C28_UnchangedSlice ==
    (cleanup.made /\ cleanup.shared => callerTables = cleanup.given) => C28_CleanupCallables

\* The operations C29 orders.
OrderedOps ==
    { "postgres.Run", "Host", "MappedPort", "FindMigrationsPath", "m.Up",
      "pgxpool.NewWithConfig", "pool.Ping" }

\* The operations of OrderedOps in the order in which they were invoked.
InvokedOrder ==
    LET sel == SelectSeq(log, LAMBDA e : e.op \in OrderedOps)
    IN  [ i \in DOMAIN sel |-> sel[i].op ]

\* The order C29 gives for the effective config c.
DocumentedOrder(c) ==
    << "postgres.Run", "Host", "MappedPort" >>
      \o (IF c.RunMigrations
            THEN (IF c.MigrationsPath = <<>> THEN << "FindMigrationsPath" >> ELSE <<>>)
                   \o << "m.Up" >>
            ELSE <<>>)
      \o << "pgxpool.NewWithConfig", "pool.Ping" >>

\* C29: when provisioning has returned a handle, the container start, the
\* host read, the port read, with migrations enabled the path resolution
\* (for an empty path) and Up, the pool construction and the Ping were each
\* invoked once, in this order, and the Ping was the last operation.
C29_ProvisioningOrder ==
    (Returned /\ ~Failed /\ Invoked("postgres.Run")) =>
        /\ InvokedOrder = DocumentedOrder(config)
        /\ LastOp = Done("pool.Ping")
        /\ \A i \in DOMAIN log :
             log[i].op \in OrderedOps => log[i].outcome \in { "ok", "ErrNoChange" }

C29_Witness ==
    /\ Returned
    /\ ~Failed
    /\ config.RunMigrations
    /\ config.MigrationsPath = <<>>
    /\ InvokedOrder = << "postgres.Run", "Host", "MappedPort", "FindMigrationsPath", "m.Up",
                         "pgxpool.NewWithConfig", "pool.Ping" >>

\* The errors the failing steps of the migration runner returned.
MigrationCauses ==
    { log[i].err : i \in { j \in DOMAIN log :
                             /\ log[j].op \in { "filepath.Abs", "migrate.New", "m.Up" }
                             /\ log[j].outcome = "error" } }

\* C30: the error StartPostgreSQLContainer returns after a failure of the
\* migration runner matches ErrMigrationsFailed, and errors.Is finds the
\* error of the failing migration step in it.
C30_MigrationFailureWrapsCause ==
    (Returned /\ MigrationRunnerFailed) =>
        /\ Failed
        /\ ErrorsIs(result.err, ErrMigrationsFailed)
        /\ \A cause \in MigrationCauses : \A target \in cause.is : ErrorsIs(result.err, target)

\* The same without the cause: the sentinel is matched and the handle is nil.
C30_SentinelOnly ==
    (Returned /\ MigrationRunnerFailed) =>
        /\ Failed
        /\ result.handle = NilHandle
        /\ ErrorsIs(result.err, ErrMigrationsFailed)

----------------------------------------------------------------------------
\* The migration runner.

\* The warnings the deferred function of runMigrations has printed.
MigrateWarnings ==
    SelectSeq(printed, LAMBDA w : w.text \in { "Warning: failed to close migrate source: %v",
                                               "Warning: failed to close migrate database: %v" })

\* C31: after an Up that ended with "no change" provisioning goes on to the
\* pool construction and no migration failure is reported; any other error
\* of Up is returned as a migration failure; once migrate.New succeeded the
\* engine is closed before runMigrations returns; a failure of that close
\* is printed and is not returned.
C31_NoChangeIsSuccess ==
    /\ \A i \in CallsWith("m.Up", "ErrNoChange") :
         /\ pending = NoError \/ ~ErrorsIs(pending, ErrMigrationsFailed)
         /\ Len(log) = i + 1 => pc = "parse"
         /\ Len(log) > i + 1 => log[i + 2].op = "pgxpool.ParseConfig"
         /\ Returned => ~(Failed /\ ErrorsIs(result.err, ErrMigrationsFailed))
    /\ (Returned /\ CallsWith("m.Up", "error") # {}) =>
         /\ Failed
         /\ ErrorsIs(result.err, ErrMigrationsFailed)
         /\ ~Invoked("pgxpool.NewWithConfig")
    /\ \A i \in CallsWith("migrate.New", "ok") :
         \/ pc = "mig_up" /\ Len(log) = i /\ migrator = "open"
         \/ /\ Len(log) >= i + 2
            /\ log[i + 1].op = "m.Up"
            /\ log[i + 2].op = "m.Close"
            /\ migrator = "closed"
    /\ \A i \in Calls("m.Close") :
         /\ log[i].outcome = "error" => MigrateWarnings # <<>>
         /\ (log[i].outcome = "error" /\ log[i - 1].outcome # "error" /\ Returned) =>
              ~(Failed /\ ErrorsIs(result.err, ErrMigrationsFailed))

C31_Witness ==
    /\ Returned
    /\ ~Failed
    /\ CallsWith("m.Up", "ErrNoChange") # {}
    /\ CallsWith("m.Close", "error") # {}
    /\ Len(MigrateWarnings) = 2

\* runMigrations has chosen the directory it hands to the engine.
PathChosen == Invoked("migrate.New")

\* The warning FindMigrationsPath prints for an invalid MIGRATIONS_PATH.
EnvWarnings ==
    SelectSeq(printed, LAMBDA w : w.text = "Warning: MIGRATIONS_PATH set but invalid: %s")

\* C32: with a configured migrations path the resolver is not called and
\* the engine gets the configured path, made absolute when it is relative,
\* whatever MIGRATIONS_PATH holds; the resolver is called, once, when the
\* configured path is empty.
C32_ResolverOnlyForEmptyPath ==
    /\ (Invoked("postgres.Run") /\ config.MigrationsPath # <<>>) =>
         /\ ~Invoked("FindMigrationsPath")
         /\ foundPath = <<>>
         /\ EnvWarnings = <<>>
         /\ PathChosen =>
              migrationsPath = IF IsAbs(config.MigrationsPath) THEN config.MigrationsPath
                               ELSE WorkingDir \o config.MigrationsPath
    /\ (PathChosen /\ config.MigrationsPath = <<>>) =>
         /\ Cardinality(Calls("FindMigrationsPath")) = 1
         /\ migrationsPath = IF IsAbs(foundPath) THEN foundPath ELSE WorkingDir \o foundPath

C32_Witness ==
    /\ Returned
    /\ ~Failed
    /\ config.MigrationsPath = << "migrations" >>
    /\ environ = << "/", "tmp", "mig" >>
    /\ IsDir(fs, environ)
    /\ migrationsPath = << "/", "work", "migrations" >>

----------------------------------------------------------------------------
\* Retries and ownership.

\* The operations of a provisioning call that can make it fail.
FallibleOps ==
    PreflightOps \cup { "postgres.Run", "Host", "MappedPort", "filepath.Abs", "migrate.New",
                        "m.Up", "pgxpool.ParseConfig", "pgxpool.NewWithConfig", "pool.Ping" }

\* The operations of the rollback.
RollbackOps == { "m.Close", "pool.Close", "Terminate" }

\* The positions of the log at which a provisioning step failed.
Failures == { i \in DOMAIN log : log[i].op \in FallibleOps /\ log[i].outcome = "error" }

\* C33: while no Close has been called, the container start, the host read,
\* the port read, Up, the pool construction, the Ping and Terminate were
\* each invoked at most once; after a failed step only the rollback runs,
\* and the call returns a nil handle and one error for exactly one failed
\* step.
C33_NoRetry ==
    closes = 0 =>
        /\ \A op \in { "postgres.Run", "Host", "MappedPort", "m.Up", "pgxpool.NewWithConfig",
                       "pool.Ping", "Terminate" } : Cardinality(Calls(op)) <= 1
        /\ \A i \in Failures : \A j \in DOMAIN log : j > i => log[j].op \in RollbackOps
        /\ Cardinality(Failures) <= 1
        /\ (Returned /\ result # NoResult) =>
             /\ Failed <=> Failures # {}
             /\ Failed => result.handle = NilHandle

C33_Witness ==
    /\ Returned
    /\ Failed
    /\ closes = 0
    /\ CallsWith("pool.Ping", "error") # {}
    /\ Cardinality(Calls("Terminate")) = 1
    /\ Cardinality(Calls("pool.Ping")) = 1

\* C34: while Close has not been called on a returned handle, neither
\* directly nor by the callable of WithCleanup, its pool is open and its
\* container running, whatever other operations of the handle were called
\* and however they ended.
C34_HelpersKeepResources ==
    (result # NoResult /\ result.handle # NilHandle /\ closes = 0) =>
        /\ pool = "open"
        /\ container = "running"
        /\ tc = result.handle
        /\ Cardinality(Calls("pool.Close")) = 0
        /\ Cardinality(Calls("Terminate")) = 0

C34_Witness ==
    /\ pc = "returned"
    /\ closes = 0
    /\ helper = "NewTestDatabase"
    /\ helperResult.err # NoError
    /\ "db2" \in databases
    /\ cleanup.made
    /\ cleanup.failed > 0
    /\ \E t \in DOMAIN db.rows : db.rows[t] = 0
    /\ pool = "open"
    /\ container = "running"

----------------------------------------------------------------------------
\* The caller of FindMigrationsPath.

\* FindMigrationsPath has run, called by the user's code or by runMigrations.
FindRan == pc = "found" \/ Invoked("FindMigrationsPath")

\* The source file of the code that called the library.
UserFile == sources.user[1]

\* C35: without a valid override the walk starts from the directory of the
\* source file of the code that called the library, in a direct call and in
\* a provisioning with an empty migrations path alike, and the result is
\* the one of the nearest ancestor of that directory with a .git directory.
C35_WalkStartsAtCaller ==
    (FindRan /\ ~EnvNamesDirectory) =>
        /\ StartDir = Dir(UserFile)
        /\ foundPath = WalkUp(fs, Dir(UserFile))

\* The same for a direct call made by a function that the test calls: two
\* frames above FindMigrationsPath is the test's file.
C35_CalledThroughHelper ==
    (pc = "found" /\ ~EnvNamesDirectory /\ Len(sources.user) = 3) =>
        /\ StartDir = Dir(UserFile)
        /\ foundPath = WalkUp(fs, Dir(UserFile))

----------------------------------------------------------------------------
\* Termination of the walk.

\* The directories examined are the starting directory and its ancestors in
\* turn, none twice and none with a .git directory before the last; the
\* last has a .git directory or is its own parent.
WalkStopsAtFirstRoot ==
    /\ \A i, j \in DOMAIN walk : i # j => walk[i] # walk[j]
    /\ \A i \in DOMAIN walk :
         i < Len(walk) => /\ ~IsDir(fs, Join(walk[i], << ".git" >>))
                          /\ walk[i + 1] = Dir(walk[i])
                          /\ Dir(walk[i]) # walk[i]
    /\ walk # <<>> =>
         /\ walk[1] = Dir(callerFile)
         /\ \/ /\ IsDir(fs, Join(walk[Len(walk)], << ".git" >>))
               /\ foundPath = FirstConventional(fs, walk[Len(walk)], 1)
            \/ /\ ~IsDir(fs, Join(walk[Len(walk)], << ".git" >>))
               /\ Dir(walk[Len(walk)]) = walk[Len(walk)]
               /\ foundPath = FallbackPath
    /\ walk = <<>> => EnvNamesDirectory

\* C36: every call of FindMigrationsPath returns, and its walk has examined
\* each directory once, from the starting directory up to the first one
\* with a .git directory and no further, or up to the directory that is its
\* own parent.
C36_WalkTerminates == <>(pc = "found" /\ WalkStopsAtFirstRoot)

C36_Witness ==
    /\ pc = "found"
    /\ walk = << << "/", "repo", "pkg" >> >>
    /\ IsDir(fs, << "/", "repo", ".git" >>)
    /\ IsDir(fs, << "/", "repo", "migrations" >>)
    /\ ~IsDir(fs, << "/", "repo", "pkg", "migrations" >>)
    /\ foundPath = FallbackPath

----------------------------------------------------------------------------
\* Sentinel kinds of a returned error.

\* The sentinel kinds errors.Is reports for err.
KindsOf(err) == { s \in Sentinels : ErrorsIs(err, s) }

\* C37: an error returned by a provisioning entry point matches at most one
\* of the five sentinel kinds; a start failure whose message contains
\* "timeout", "port" and "already in use" matches ErrContainerStartTimeout
\* and no other kind.
C37_AtMostOneSentinel ==
    (Returned /\ Failed) =>
        /\ Cardinality(KindsOf(result.err)) <= 1
        /\ (LastOp.op = "postgres.Run" /\ LastOp.err.msg = Keywords) =>
               KindsOf(result.err) = { ErrContainerStartTimeout }

C37_Witness ==
    /\ Returned
    /\ Failed
    /\ LastOp.op = "postgres.Run"
    /\ LastOp.err.msg = Keywords
    /\ ErrorsIs(result.err, ErrContainerStartTimeout)

----------------------------------------------------------------------------
\* CleanSpecificTables and a table dropped during the call.

\* The call has returned after issuing its TRUNCATE.
TruncateIssued ==
    /\ helper = "CleanSpecificTables"
    /\ pc = "returned"
    /\ helperResult # NoResult
    /\ issued # <<>>
    /\ issued[Len(issued)].op = "Exec"

\* The tables that existed when the call began and exist no more.
Dropped == DOMAIN before.rows \ DOMAIN db.rows

\* A table the statement designates was dropped during the call.
DroppedUnderway == TruncateTargets(TruncateSQL(hTables)) \cap Dropped # {}

\* C38: when a table named in the TRUNCATE is dropped by another client
\* between its existence check and the statement, the call returns the
\* truncate error and no table is emptied; when no table is dropped during
\* the call every name in the statement still exists when it is executed.
C38_CheckThenAct ==
    TruncateIssued =>
        /\ DroppedUnderway =>
              /\ helperResult.err # NoError
              /\ helperResult.err.text = "failed to truncate specific tables: %w"
              /\ issued[Len(issued)].outcome = "error"
              /\ \A t \in DOMAIN db.rows : db.rows[t] = before.rows[t]
        /\ Dropped = {} =>
              /\ ~DroppedUnderway
              /\ \A i \in DOMAIN hTables : TableExistsQuery(db, hTables[i])

C38_Witness ==
    /\ TruncateIssued
    /\ hArgs = << "t1", "t2" >>
    /\ hTables = << "t1", "t2" >>
    /\ DOMAIN before.rows = { << "public", "t1" >>, << "public", "t2" >> }
    /\ Dropped = { << "public", "t2" >> }
    /\ before.rows[<< "public", "t1" >>] = 1
    /\ db.rows[<< "public", "t1" >>] = 1
    /\ helperResult.err # NoError

----------------------------------------------------------------------------
\* What the two cleaning methods take to exist.

\* A table of that name exists in some schema when the call begins.
InSomeSchema(name) == \E t \in DOMAIN before.rows : t[2] = name

\* The names among the first n arguments that some schema holds.
FoundAmong(n) == SelectSeq(SubSeq(hArgs, 1, n), InSomeSchema)

Migrations == << "public", "schema_migrations" >>

\* C39: CleanSpecificTables takes a name to exist when a table of that name
\* exists in any schema, denylisted or not, and its TRUNCATE names exactly
\* those arguments; a successful call that names schema_migrations leaves
\* it empty.  CleanAllTables enumerates the tables of the public schema that
\* are not denylisted, and no other.
C39_LookupInAnySchema ==
    /\ helper = "CleanSpecificTables" =>
          /\ hTables = FoundAmong(hIdx - 1)
          /\ \A i \in Execs : issued[i].sql = TruncateSQL(FoundAmong(Len(hArgs)))
          /\ ( /\ HelperOk("CleanSpecificTables")
               /\ \E k \in DOMAIN hArgs : hArgs[k] = "schema_migrations"
               /\ Migrations \in DOMAIN before.rows ) =>
                 /\ Execs # {}
                 /\ db.rows[Migrations] = 0
    /\ (helper = "CleanAllTables" /\ hTables # <<>>) =>
          { hTables[i] : i \in DOMAIN hTables } =
              { t[2] : t \in { u \in DOMAIN before.rows : u[1] = "public" } } \ Denylist

C39_Witness ==
    /\ HelperReturned("CleanSpecificTables")
    /\ hArgs = << "t1" >>
    /\ << "audit", "t1" >> \in DOMAIN before.rows
    /\ << "public", "t1" >> \notin DOMAIN before.rows
    /\ Execs # {}
    /\ \A i \in Execs : issued[i].sql = << "TRUNCATE ", "t1", " CASCADE" >>

====
